---- MODULE Spec2Model ----
(***************************************************************************)
(* Model of the retrieval core of the elearn API: the chunker              *)
(* (services.ChunkText), the similarity scorer (services.CosineSimilarity),*)
(* the embedding providers (OpenAIEmbedding.Embed, OllamaEmbedding.Embed)  *)
(* and the handlers that write and read the store of chunks and vectors    *)
(* (Handler.UploadPDF, Handler.DeleteSourceFile, Handler.ChatAsk).         *)
(*                                                                         *)
(* A Go string is a sequence of bytes (0..255); a []rune is a sequence of  *)
(* code points.  The conversions between the two are modelled by what they *)
(* do (UTF-8 decoding and encoding), so that counting in code points and   *)
(* counting in bytes are different things in the model as they are in Go.  *)
(***************************************************************************)
EXTENDS Integers, Sequences, FiniteSets

VARIABLES
    text,            \* ChunkText: the argument, a Go string (sequence of bytes)
    chunks,          \* ChunkText: the returned []string
    queryEmbedding,  \* CosineSimilarity: first argument; in ChatAsk, the
                     \* embedding of the question
    vector,          \* CosineSimilarity: second argument
    score,           \* CosineSimilarity: the returned float64
    pc,              \* position of the call or request under way
    dbChunks,        \* the rows of table chunks, in insertion order
    dbEmbeddings,    \* the rows of table embeddings, in insertion order
    req,             \* ChatAsk: the bound ChatRequest
    scoredChunks,    \* ChatAsk: the scored candidates, sorted in place
    topChunks,       \* ChatAsk: scoredChunks[:topK]
    prompt,          \* ChatAsk: the labelled context built for the generator
    citations,       \* ChatAsk: the citation labels
    response,        \* the HTTP response the handler under way has written
    provider,        \* the configured embedding provider
    httpReply,       \* Embed: what the POST to the backend came back with
    embedResult,     \* Embed: the returned ([]float64, error)
    embedCalls,      \* the requests the embedding backend has received from
                     \* the handler under way, each with its reply
    genCalls,        \* the same for the text-generation backend
    dbCourses,       \* the rows of table courses
    dbSourceFiles,   \* the rows of table source_files
    upload,          \* UploadPDF: courseID, sourceFileID, chunks and loop index
    deleted,         \* DeleteSourceFile: the path parameters and what it found
    uuids,           \* how many uploads have drawn identifiers from uuid.New()
    previous,        \* ChatAsk: what the request before this one was given
                     \* and what it selected (kept for comparison only)
    running          \* the locals of the handlers that run side by side,
                     \* one goroutine per request

vars == <<text, chunks, queryEmbedding, vector, score, pc, dbChunks, dbEmbeddings,
          req, scoredChunks, topChunks, prompt, citations, response,
          provider, httpReply, embedResult, embedCalls, genCalls,
          dbCourses, dbSourceFiles, upload, deleted, uuids, previous, running>>

chatVars == <<dbChunks, dbEmbeddings, req, scoredChunks, topChunks, prompt,
              citations, response>>

embedVars == <<provider, httpReply, embedResult>>

backendVars == <<embedCalls, genCalls>>

storeVars == <<dbCourses, dbSourceFiles, upload, deleted, uuids>>

(***************************************************************************)
(* Program constants, api/services/pdf.go                                  *)
(***************************************************************************)
ChunkSize == 1000

ChunkOverlap == 200

(***************************************************************************)
(* UTF-8, as Go's  []rune(s)  and  string(runes)  conversions apply it.    *)
(***************************************************************************)
IsCont(b) == b >= 128 /\ b <= 191

\* The width Go's decoder consumes at position i of s: the length of the
\* well-formed sequence that starts there, or 1 for a byte that starts none
\* (which decodes to utf8.RuneError, U+FFFD).
RuneWidth(s, i) ==
    LET b0 == s[i]
        n  == Len(s)
        c(k) == i + k <= n /\ IsCont(s[i + k])
        second(lo, hi) == i + 1 <= n /\ s[i + 1] >= lo /\ s[i + 1] <= hi
    IN  IF b0 < 128 THEN 1
        ELSE IF b0 >= 194 /\ b0 <= 223 THEN (IF c(1) THEN 2 ELSE 1)
        ELSE IF b0 = 224 THEN (IF second(160, 191) /\ c(2) THEN 3 ELSE 1)
        ELSE IF b0 = 237 THEN (IF second(128, 159) /\ c(2) THEN 3 ELSE 1)
        ELSE IF b0 >= 225 /\ b0 <= 239 THEN (IF c(1) /\ c(2) THEN 3 ELSE 1)
        ELSE IF b0 = 240 THEN (IF second(144, 191) /\ c(2) /\ c(3) THEN 4 ELSE 1)
        ELSE IF b0 = 244 THEN (IF second(128, 143) /\ c(2) /\ c(3) THEN 4 ELSE 1)
        ELSE IF b0 >= 241 /\ b0 <= 243 THEN (IF c(1) /\ c(2) /\ c(3) THEN 4 ELSE 1)
        ELSE 1

\* The code point decoded at position i of s (utf8.DecodeRuneInString).
DecodeRuneAt(s, i) ==
    LET w == RuneWidth(s, i)
        b0 == s[i]
    IN  IF b0 < 128 THEN b0
        ELSE IF w = 1 THEN 65533   \* utf8.RuneError
        ELSE IF w = 2 THEN (b0 % 32) * 64 + (s[i + 1] % 64)
        ELSE IF w = 3 THEN (b0 % 16) * 4096 + (s[i + 1] % 64) * 64 + (s[i + 2] % 64)
        ELSE (b0 % 8) * 262144 + (s[i + 1] % 64) * 4096
                 + (s[i + 2] % 64) * 64 + (s[i + 3] % 64)

\* The bytes string(r) yields for one rune (utf8.EncodeRune): surrogates and
\* values out of range are encoded as U+FFFD.
EncodeRune(r) ==
    IF r < 0 \/ r > 1114111 \/ (r >= 55296 /\ r <= 57343)
      THEN <<239, 191, 189>>
    ELSE IF r < 128 THEN <<r>>
    ELSE IF r < 2048 THEN <<192 + (r \div 64), 128 + (r % 64)>>
    ELSE IF r < 65536
      THEN <<224 + (r \div 4096), 128 + ((r \div 64) % 64), 128 + (r % 64)>>
    ELSE <<240 + (r \div 262144), 128 + ((r \div 4096) % 64),
           128 + ((r \div 64) % 64), 128 + (r % 64)>>

\* The first position >= i of s that is not a continuation byte (Len(s)+1
\* when there is none): the decoder always starts a rune there, because a
\* well-formed sequence continues over continuation bytes only and an
\* ill-formed one consumes a single byte.
RECURSIVE NextBoundary(_, _)
NextBoundary(s, i) ==
    IF i > Len(s) \/ ~IsCont(s[i]) THEN i ELSE NextBoundary(s, i + 1)

\* Left-to-right decoding of s[lo..hi-1], where lo is a position the decoder
\* starts a rune at.
RECURSIVE DecodeFrom(_, _, _)
DecodeFrom(s, lo, hi) ==
    IF lo >= hi THEN <<>>
    ELSE <<DecodeRuneAt(s, lo)>> \o DecodeFrom(s, lo + RuneWidth(s, lo), hi)

\* []rune(s) over s[lo..hi-1], split at decoder boundaries so that the
\* recursion is logarithmic in the length of s.
RECURSIVE DecodeRange(_, _, _)
DecodeRange(s, lo, hi) ==
    IF hi - lo <= 8 THEN DecodeFrom(s, lo, hi)
    ELSE LET mid == NextBoundary(s, lo + ((hi - lo) \div 2))
         IN  IF mid >= hi THEN DecodeFrom(s, lo, hi)
             ELSE DecodeRange(s, lo, mid) \o DecodeRange(s, mid, hi)

\* []rune(s)
ToRunes(s) == DecodeRange(s, 1, Len(s) + 1)

RECURSIVE EncodeRange(_, _, _)
EncodeRange(runes, lo, hi) ==
    IF lo > hi THEN <<>>
    ELSE IF lo = hi THEN EncodeRune(runes[lo])
    ELSE LET mid == (lo + hi) \div 2
         IN  EncodeRange(runes, lo, mid) \o EncodeRange(runes, mid + 1, hi)

\* string(runes)
ToString(runes) == EncodeRange(runes, 1, Len(runes))


(***************************************************************************)
(* strings.TrimSpace                                                       *)
(***************************************************************************)
\* unicode.IsSpace
IsSpace(r) ==
    \/ r \in {9, 10, 11, 12, 13, 32, 133, 160, 5760, 8232, 8233, 8239, 8287, 12288}
    \/ (r >= 8192 /\ r <= 8202)

\* The number of white-space runes runes[lo], runes[lo+1], ... before the
\* first rune in lo..hi that is not white space.
RECURSIVE LeadingSpaces(_, _, _)
LeadingSpaces(runes, lo, hi) ==
    IF lo > hi THEN 0
    ELSE IF lo = hi THEN (IF IsSpace(runes[lo]) THEN 1 ELSE 0)
    ELSE LET mid  == (lo + hi) \div 2
             left == LeadingSpaces(runes, lo, mid)
         IN  IF left = mid - lo + 1
               THEN left + LeadingSpaces(runes, mid + 1, hi)
               ELSE left

\* The number of white-space runes after the last rune in lo..hi that is not
\* white space.
RECURSIVE TrailingSpaces(_, _, _)
TrailingSpaces(runes, lo, hi) ==
    IF lo > hi THEN 0
    ELSE IF lo = hi THEN (IF IsSpace(runes[lo]) THEN 1 ELSE 0)
    ELSE LET mid   == (lo + hi) \div 2
             right == TrailingSpaces(runes, mid + 1, hi)
         IN  IF right = hi - mid
               THEN right + TrailingSpaces(runes, lo, mid)
               ELSE right

\* The number of bytes runes[lo..hi] encode to.
RECURSIVE EncodedLen(_, _, _)
EncodedLen(runes, lo, hi) ==
    IF lo > hi THEN 0
    ELSE IF lo = hi THEN Len(EncodeRune(runes[lo]))
    ELSE LET mid == (lo + hi) \div 2
         IN  EncodedLen(runes, lo, mid) + EncodedLen(runes, mid + 1, hi)

\* A TrimSpace that trims the front only (strings.TrimLeft).
TrimSpace_LeftOnly(s) ==
    LET runes == ToRunes(s)
        lead  == LeadingSpaces(runes, 1, Len(runes))
    IN  SubSeq(s, EncodedLen(runes, 1, lead) + 1, Len(s))

\* strings.TrimSpace(s): s without its leading and trailing white-space
\* runes, as a slice of the bytes of s.  White-space runes are well-formed
\* sequences, so their encoded length is the number of bytes they take in s.
TrimSpace(s) ==
    LET runes == ToRunes(s)
        n     == Len(runes)
        lead  == LeadingSpaces(runes, 1, n)
    IN  IF lead = n THEN <<>>
        ELSE LET trail == TrailingSpaces(runes, 1, n)
             IN  SubSeq(s, EncodedLen(runes, 1, lead) + 1,
                        Len(s) - EncodedLen(runes, n - trail + 1, n))

(***************************************************************************)
(* services.ChunkText                                                      *)
(***************************************************************************)
\* A loop that stops once a window has reached the end of the text.
RECURSIVE ChunkLoop_StopAtEnd(_, _, _)
ChunkLoop_StopAtEnd(runes, start, acc) ==
    IF ~(start < Len(runes)) THEN acc
    ELSE LET end0  == start + ChunkSize
             end   == IF end0 > Len(runes) THEN Len(runes) ELSE end0
             chunk == TrimSpace(ToString(SubSeq(runes, start + 1, end)))
             acc1  == IF Len(chunk) > 0 THEN Append(acc, chunk) ELSE acc
         IN  IF end = Len(runes) THEN acc1
             ELSE ChunkLoop_StopAtEnd(runes, start + ChunkSize - ChunkOverlap, acc1)

\* A loop that advances by a whole window, without the overlap.
RECURSIVE ChunkLoop_NoOverlap(_, _, _)
ChunkLoop_NoOverlap(runes, start, acc) ==
    IF ~(start < Len(runes)) THEN acc
    ELSE LET end0  == start + ChunkSize
             end   == IF end0 > Len(runes) THEN Len(runes) ELSE end0
             chunk == TrimSpace(ToString(SubSeq(runes, start + 1, end)))
         IN  ChunkLoop_NoOverlap(runes, start + ChunkSize,
                                 IF Len(chunk) > 0 THEN Append(acc, chunk) ELSE acc)

\* A loop that appends every trimmed window, empty or not.
RECURSIVE ChunkLoop_KeepEmpty(_, _, _)
ChunkLoop_KeepEmpty(runes, start, acc) ==
    IF ~(start < Len(runes)) THEN acc
    ELSE LET end0  == start + ChunkSize
             end   == IF end0 > Len(runes) THEN Len(runes) ELSE end0
             chunk == TrimSpace(ToString(SubSeq(runes, start + 1, end)))
         IN  ChunkLoop_KeepEmpty(runes, start + ChunkSize - ChunkOverlap,
                                 Append(acc, chunk))

\* The loop of ChunkText from the iteration whose window starts at `start`
\* (0-based, as in the code), with the chunks appended so far.
RECURSIVE ChunkLoop(_, _, _)
ChunkLoop(runes, start, acc) ==
    IF ~(start < Len(runes)) THEN acc
    ELSE LET end0  == start + ChunkSize
             end   == IF end0 > Len(runes) THEN Len(runes) ELSE end0
             chunk == TrimSpace(ToString(SubSeq(runes, start + 1, end)))
         IN  ChunkLoop(runes, start + ChunkSize - ChunkOverlap,
                       IF Len(chunk) > 0 THEN Append(acc, chunk) ELSE acc)

\* A ChunkText that slices the bytes of the string, text[start:end],
\* instead of its runes.
RECURSIVE ChunkLoop_Bytes(_, _, _)
ChunkLoop_Bytes(s, start, acc) ==
    IF ~(start < Len(s)) THEN acc
    ELSE LET end0  == start + ChunkSize
             end   == IF end0 > Len(s) THEN Len(s) ELSE end0
             chunk == TrimSpace(SubSeq(s, start + 1, end))
         IN  ChunkLoop_Bytes(s, start + ChunkSize - ChunkOverlap,
                             IF Len(chunk) > 0 THEN Append(acc, chunk) ELSE acc)

ChunkText_Bytes(t) ==
    IF Len(t) = 0 THEN <<>>
    ELSE ChunkLoop_Bytes(t, 0, <<>>)

ChunkText(t) ==
    IF Len(t) = 0 THEN <<>>
    ELSE ChunkLoop(ToRunes(t), 0, <<>>)

(***************************************************************************)
(* float64 values.  The components of a vector are integers, which float64 *)
(* holds exactly, as it does their products and sums at the sizes used     *)
(* here.  A similarity is  dot / (sqrt(normA) * sqrt(normB)) : it is kept  *)
(* as its sign and its square in lowest terms, sgn * sqrt(p / q), so that  *)
(* two similarities are the same value exactly when they are the same      *)
(* record.  Rounding of the square roots and of the quotient is not        *)
(* modelled; NaN is a value of its own, which no comparison holds of.      *)
(***************************************************************************)
FloatZero == [sgn |-> 0, p |-> 0, q |-> 1]

FloatOne == [sgn |-> 1, p |-> 1, q |-> 1]

FloatNaN == [sgn |-> 0, p |-> 0, q |-> 0]

RECURSIVE Gcd(_, _)
Gcd(m, n) == IF n = 0 THEN m ELSE Gcd(n, m % n)

\* x / (math.Sqrt(m) * math.Sqrt(n)) for integers x, m >= 0, n >= 0.
FloatQuotient(x, m, n) ==
    IF m * n = 0 THEN FloatNaN                \* 0/0, or x/0 = +-Inf
    ELSE IF x = 0 THEN FloatZero
    ELSE LET g == Gcd(x * x, m * n)
         IN  [sgn |-> IF x > 0 THEN 1 ELSE -1,
              p   |-> (x * x) \div g,
              q   |-> (m * n) \div g]

\* x > y on float64 values.
FloatGreater(x, y) ==
    IF x.q = 0 \/ y.q = 0 THEN FALSE
    ELSE IF x.sgn # y.sgn THEN x.sgn > y.sgn
    ELSE IF x.sgn = 1 THEN x.p * y.q > y.p * x.q
    ELSE IF x.sgn = -1 THEN x.p * y.q < y.p * x.q
    ELSE FALSE

(***************************************************************************)
(* services.CosineSimilarity                                               *)
(***************************************************************************)
\* The accumulation loop  for i := range a , from index i (1-based).
RECURSIVE CosineLoop(_, _, _, _)
CosineLoop(a, b, i, acc) ==
    IF i > Len(a) THEN acc
    ELSE CosineLoop(a, b, i + 1,
                    [dotProduct |-> acc.dotProduct + a[i] * b[i],
                     normA      |-> acc.normA + a[i] * a[i],
                     normB      |-> acc.normB + b[i] * b[i]])

\* A CosineSimilarity without the length check, which compares over the
\* shorter of the two vectors.
CosineSimilarity_Truncated(a, b) ==
    LET n   == IF Len(a) < Len(b) THEN Len(a) ELSE Len(b)
        acc == CosineLoop(SubSeq(a, 1, n), SubSeq(b, 1, n), 1,
                          [dotProduct |-> 0, normA |-> 0, normB |-> 0])
    IN  IF acc.normA = 0 \/ acc.normB = 0 THEN FloatZero
        ELSE FloatQuotient(acc.dotProduct, acc.normA, acc.normB)

\* A CosineSimilarity that returns the dot product, not divided by the norms.
CosineSimilarity_DotOnly(a, b) ==
    IF Len(a) # Len(b) THEN FloatZero
    ELSE LET acc == CosineLoop(a, b, 1, [dotProduct |-> 0, normA |-> 0, normB |-> 0])
         IN  IF acc.normA = 0 \/ acc.normB = 0 THEN FloatZero
             ELSE FloatQuotient(acc.dotProduct, 1, 1)

\* A CosineSimilarity without the zero-norm check.
CosineSimilarity_NoZeroCheck(a, b) ==
    IF Len(a) # Len(b) THEN FloatZero
    ELSE LET acc == CosineLoop(a, b, 1, [dotProduct |-> 0, normA |-> 0, normB |-> 0])
         IN  FloatQuotient(acc.dotProduct, acc.normA, acc.normB)

CosineSimilarity(a, b) ==
    IF Len(a) # Len(b) THEN FloatZero
    ELSE LET acc == CosineLoop(a, b, 1, [dotProduct |-> 0, normA |-> 0, normB |-> 0])
         IN  IF acc.normA = 0 \/ acc.normB = 0 THEN FloatZero
             ELSE FloatQuotient(acc.dotProduct, acc.normA, acc.normB)

(***************************************************************************)
(* JSON documents, as encoding/json reads and writes them.  A document is  *)
(* a record tagged with its kind; bytes that are no JSON document at all   *)
(* are the kind "invalid".                                                 *)
(***************************************************************************)
JsonInvalid == [json |-> "invalid"]

JsonNull == [json |-> "null"]

JsonString == [json |-> "string"]

JsonNumber(n) == [json |-> "number", val |-> n]

JsonArray(items) == [json |-> "array", elems |-> items]

JsonObject(m) == [json |-> "object", members |-> m]

\* The object {} with no member.
NoMembers == [k \in {} |-> JsonNull]

\* The value json.Unmarshal finds for a struct field: a member that is
\* absent leaves the field at its zero value, as null does.
Member(obj, key) ==
    IF key \in DOMAIN obj.members THEN obj.members[key] ELSE JsonNull

\* json.Unmarshal into a []float64: null leaves the nil slice, an array of
\* numbers fills it, anything else is an UnmarshalTypeError.
DecodeFloats(j) ==
    IF j.json = "null" THEN [ok |-> TRUE, val |-> <<>>]
    ELSE IF j.json # "array" THEN [ok |-> FALSE, val |-> <<>>]
    ELSE IF \E i \in 1..Len(j.elems) : j.elems[i].json # "number"
           THEN [ok |-> FALSE, val |-> <<>>]
    ELSE [ok |-> TRUE, val |-> [i \in 1..Len(j.elems) |-> j.elems[i].val]]

\* json.Unmarshal into struct{ Embedding []float64 `json:"embedding"` }.
DecodeEmbeddingStruct(j) ==
    IF j.json = "null" THEN [ok |-> TRUE, val |-> <<>>]
    ELSE IF j.json # "object" THEN [ok |-> FALSE, val |-> <<>>]
    ELSE DecodeFloats(Member(j, "embedding"))

\* json.Unmarshal(body, &result) of OpenAIEmbedding.Embed, result being
\* struct{ Data []struct{ Embedding []float64 } `json:"data"` }.
OpenAIDecode(body) ==
    IF body.json = "null" THEN [ok |-> TRUE, Data |-> <<>>]
    ELSE IF body.json # "object" THEN [ok |-> FALSE, Data |-> <<>>]
    ELSE LET d == Member(body, "data")
         IN  IF d.json = "null" THEN [ok |-> TRUE, Data |-> <<>>]
             ELSE IF d.json # "array" THEN [ok |-> FALSE, Data |-> <<>>]
             ELSE LET items == [i \in 1..Len(d.elems) |->
                                   DecodeEmbeddingStruct(d.elems[i])]
                  IN  [ok   |-> \A i \in 1..Len(items) : items[i].ok,
                       Data |-> [i \in 1..Len(items) |->
                                    [Embedding |-> items[i].val]]]

(***************************************************************************)
(* EmbeddingProvider.Embed, api/services/embeddings.go.  The reply of the  *)
(* backend is what client.Do and io.ReadAll come back with: a transport    *)
(* error, a response whose body cannot be read, or a status and a body.    *)
(* The result is the pair ([]float64, error): err is "" for nil, and the   *)
(* nil slice is the empty sequence.                                        *)
(***************************************************************************)
TransportError == [kind |-> "error"]

ReadError(st) == [kind |-> "readerror", status |-> st]

Response(st, b) == [kind |-> "response", status |-> st, body |-> b]

EmbedError(msg) == [vector |-> <<>>, err |-> msg]

OpenAIEmbed(reply) ==
    IF reply.kind = "error" THEN EmbedError("failed to send request")
    ELSE IF reply.kind = "readerror" THEN EmbedError("failed to read response")
    ELSE IF reply.status # 200 THEN EmbedError("API error")
    ELSE LET result == OpenAIDecode(reply.body)
         IN  IF ~result.ok THEN EmbedError("failed to parse response")
             ELSE IF Len(result.Data) = 0
                    THEN EmbedError("no embedding data in response")
             ELSE [vector |-> result.Data[1].Embedding, err |-> ""]

OllamaEmbed(reply) ==
    IF reply.kind = "error" THEN EmbedError("failed to send request")
    ELSE IF reply.kind = "readerror" THEN EmbedError("failed to read response")
    ELSE IF reply.status # 200 THEN EmbedError("Ollama error")
    ELSE LET result == DecodeEmbeddingStruct(reply.body)
         IN  IF ~result.ok THEN EmbedError("failed to parse response")
             ELSE [vector |-> result.val, err |-> ""]

\* The provider NewEmbeddingProvider builds: OllamaEmbedding for "ollama",
\* OpenAIEmbedding otherwise.
Embed(p, reply) ==
    IF p = "ollama" THEN OllamaEmbed(reply) ELSE OpenAIEmbed(reply)

\* GetDimension() of the provider built for the default models.
GetDimension(p) == IF p = "ollama" THEN 768 ELSE 1536

(***************************************************************************)
(* Handler.ChatAsk: load, score and rank                                   *)
(***************************************************************************)
\* h.db.Where("course_id = ?", courseID).Find(&chunks)
LoadChunks(tblChunks, courseID) ==
    SelectSeq(tblChunks, LAMBDA c : c.CourseID = courseID)

\* h.db.Joins("JOIN chunks ON embeddings.chunk_id = chunks.id")
\*     .Where("chunks.course_id = ?", courseID).Find(&embeddings)
LoadEmbeddings(tblChunks, tblEmbeddings, courseID) ==
    SelectSeq(tblEmbeddings,
              LAMBDA e : \E i \in 1..Len(tblChunks) :
                            /\ tblChunks[i].ID = e.ChunkID
                            /\ tblChunks[i].CourseID = courseID)

\* json.Marshal(embedding) of a []float64.  (A nil slice is written as
\* null, which reads back as the same empty vector.)
JsonMarshalVector(v) == JsonArray([i \in 1..Len(v) |-> JsonNumber(v[i])])

\* json.Unmarshal([]byte(emb.Vector), &vector) with its error dropped: the
\* elements of a JSON array of numbers, and the nil slice for anything else.
JsonUnmarshalVector(str) == DecodeFloats(str).val

\* The first chunk of cs whose ID is id, from index i; 0 when there is none.
RECURSIVE FindChunk(_, _, _)
FindChunk(cs, id, i) ==
    IF i > Len(cs) THEN 0
    ELSE IF cs[i].ID = id THEN i
    ELSE FindChunk(cs, id, i + 1)

\* The loop  for _, emb := range embeddings , from index i.
RECURSIVE ScoreLoop(_, _, _, _, _)
ScoreLoop(q, cs, es, i, acc) ==
    IF i > Len(es) THEN acc
    ELSE LET v == JsonUnmarshalVector(es[i].Vector)
             x == CosineSimilarity(q, v)
             k == FindChunk(cs, es[i].ChunkID, 1)
         IN  ScoreLoop(q, cs, es, i + 1,
                       IF k = 0 THEN acc
                       ELSE Append(acc, [Chunk |-> cs[k], Score |-> x]))

\* A scoring that lists every chunk, with score 0 where no vector is stored.
ScoreChunks_EveryChunk(q, cs, es) ==
    [i \in 1..Len(cs) |->
        [Chunk |-> cs[i],
         Score |-> IF \E k \in 1..Len(es) : es[k].ChunkID = cs[i].ID
                     THEN LET k == CHOOSE k \in 1..Len(es) : es[k].ChunkID = cs[i].ID
                          IN  CosineSimilarity(q, JsonUnmarshalVector(es[k].Vector))
                     ELSE FloatZero]]

\* A scoring that pairs the i-th loaded embedding with the i-th loaded chunk.
ScoreChunks_ByPosition(q, cs, es) ==
    [i \in 1..Len(es) |->
        [Chunk |-> cs[i],
         Score |-> CosineSimilarity(q, JsonUnmarshalVector(es[i].Vector))]]

ScoreChunks(q, cs, es) == ScoreLoop(q, cs, es, 1, <<>>)

Swap(s, i, j) == [s EXCEPT ![i] = s[j], ![j] = s[i]]

\* An inner loop that swaps when the later score is the lower one.
RECURSIVE SortInner_Ascending(_, _, _)
SortInner_Ascending(s, i, j) ==
    IF j > Len(s) THEN s
    ELSE SortInner_Ascending(IF FloatGreater(s[i].Score, s[j].Score)
                               THEN Swap(s, i, j) ELSE s,
                             i, j + 1)

\* The inner loop  for j := i + 1; j < len(scoredChunks); j++  (1-based).
RECURSIVE SortInner(_, _, _)
SortInner(s, i, j) ==
    IF j > Len(s) THEN s
    ELSE SortInner(IF FloatGreater(s[j].Score, s[i].Score) THEN Swap(s, i, j) ELSE s,
                   i, j + 1)

\* The outer loop  for i := 0; i < len(scoredChunks); i++  (1-based).
RECURSIVE SortOuter(_, _)
SortOuter(s, i) ==
    IF i > Len(s) THEN s
    ELSE SortOuter(SortInner(s, i, i + 1), i + 1)

SortScored(s) == SortOuter(s, 1)

TopK == 6

\* scoredChunks[:topK] of the sorted candidates.
TopChunks(sorted) ==
    SubSeq(sorted, 1, IF Len(sorted) < TopK THEN Len(sorted) ELSE TopK)

\* fmt.Sprintf("%.2f", x): x in hundredths, rounded to nearest, a tie to
\* the even neighbour.  |x| <= 1 for a similarity.
Hundredths(x) ==
    IF x.q = 0 THEN 0
    ELSE LET below == {k \in 1..100 : (2 * k - 1) * (2 * k - 1) * x.q < 40000 * x.p}
             tie   == {k \in 1..100 : (2 * k - 1) * (2 * k - 1) * x.q = 40000 * x.p}
             h0    == Cardinality(below)
             h     == IF tie # {} /\ (h0 + 1) % 2 = 0 THEN h0 + 1 ELSE h0
         IN  x.sgn * h

\* The loop  for i, sc := range topChunks : the labelled context and the
\* citations.
BuildPrompt(top) ==
    [i \in 1..Len(top) |-> [label |-> i, content |-> top[i].Chunk.Content]]

\* Citations that count the positions from 0, as the loop variable does.
BuildCitations_FromZero(top) ==
    [i \in 1..Len(top) |-> [label |-> i - 1, similarity |-> Hundredths(top[i].Score)]]

BuildCitations(top) ==
    [i \in 1..Len(top) |-> [label |-> i, similarity |-> Hundredths(top[i].Score)]]

(***************************************************************************)
(* Inputs of ChunkText                                                     *)
(***************************************************************************)
\* The longest input has MaxWin full steps of the window, plus one window.
MaxWin == 2

Step == ChunkSize - ChunkOverlap

Lengths ==
    {n \in {k * Step + d : k \in 0..MaxWin, d \in {-1, 0, 1}}
           \cup {k * Step + ChunkOverlap + d : k \in 0..MaxWin, d \in {-1, 0, 1}}
           \cup {2, 2500} : n >= 0}

Layouts == {"none", "ends", "edges", "gap", "tail", "all"}

\* Whether the rune at 0-based position i of an n-rune input is white space.
InSpace(layout, i, n) ==
    CASE layout = "none"  -> FALSE
      [] layout = "ends"  -> i < 2 \/ i >= n - 2
      [] layout = "edges" -> \E k \in 1..(MaxWin + 1) :
                                \/ (i >= k * Step - 1 /\ i <= k * Step)
                                \/ (i >= k * Step + ChunkOverlap - 1
                                        /\ i <= k * Step + ChunkOverlap)
      [] layout = "gap"   -> i < 2 \/ (i >= Step /\ i < Step + ChunkSize)
      [] layout = "tail"  -> i >= ChunkSize - 3
      [] layout = "all"   -> TRUE

RuneOf(fill, layout, i, n) ==
    IF InSpace(layout, i, n)
      THEN (IF fill = "ascii" THEN <<32, 10>>[(i % 2) + 1]
                              ELSE <<32, 12288, 160>>[(i % 3) + 1])
      ELSE (IF fill = "ascii" THEN 97 + (i % 26)
                              ELSE <<97, 233, 19990, 128512>>[(i % 4) + 1])

InputRunes(n, fill, layout) == [j \in 1..n |-> RuneOf(fill, layout, j - 1, n)]

\* Well-formed inputs ("none"), and inputs with a byte that starts no rune
\* in front ("head") or a truncated sequence at the end ("tail").
InputText(n, fill, layout, damage) ==
    LET s == ToString(InputRunes(n, fill, layout))
    IN  CASE damage = "none" -> s
          [] damage = "head" -> <<128>> \o s
          [] damage = "tail" -> s \o <<227, 128>>

Texts ==
    {InputText(n, "ascii", l, "none") : n \in Lengths, l \in Layouts}
      \cup {InputText(n, "mixed", l, "none") : n \in Lengths,
                                              l \in {"none", "edges", "tail"}}
      \cup {InputText(n, "mixed", l, d) : n \in {Step + ChunkOverlap - 1, 2500},
                                          l \in {"none", "gap"},
                                          d \in {"head", "tail"}}

(***************************************************************************)
(* The call  chunks := ChunkText(text)                                     *)
(***************************************************************************)
SimilarityIdle ==
    /\ queryEmbedding = <<>>
    /\ vector = <<>>
    /\ score = FloatZero

NoResponse == [status |-> 0]

\* No reply: the backend has not answered the request.
NoReply == [kind |-> "none"]

EmbedIdle ==
    /\ provider = "openai"
    /\ httpReply = NoReply
    /\ embedResult = [vector |-> <<>>, err |-> ""]

BackendIdle ==
    /\ embedCalls = <<>>
    /\ genCalls = <<>>

\* No request before this one.
NoPrevious ==
    [req |-> [CourseID |-> "", Question |-> ""], ranked |-> FALSE,
     query |-> <<>>, cs |-> <<>>, es |-> <<>>, top |-> <<>>]

\* The goroutines of the requests served side by side, and one that serves
\* no request yet.
Goroutines == {1, 2}

NoHandler ==
    [op |-> "none", pc |-> "idle", courseID |-> "", fileID |-> 0, n |-> 0,
     chunks |-> <<>>, i |-> 0, vector |-> <<>>, found |-> <<>>, log |-> <<>>,
     status |-> 0]

NoHandlers == [g \in Goroutines |-> NoHandler]

NoUpload == [courseID |-> "", sourceFileID |-> 0, chunks |-> <<>>, i |-> 0]

NoDelete == [courseID |-> "", fileID |-> 0, remaining |-> 0]

StoreIdle ==
    /\ dbCourses = <<>>
    /\ dbSourceFiles = <<>>
    /\ upload = NoUpload
    /\ deleted = NoDelete
    /\ uuids = 0

ChatIdle ==
    /\ dbChunks = <<>>
    /\ dbEmbeddings = <<>>
    /\ req = [CourseID |-> "", Question |-> ""]
    /\ scoredChunks = <<>>
    /\ topChunks = <<>>
    /\ prompt = <<>>
    /\ citations = <<>>
    /\ response = NoResponse

InitChunk ==
    /\ text \in Texts
    /\ chunks = <<>>
    /\ pc = "call"
    /\ SimilarityIdle
    /\ ChatIdle
    /\ EmbedIdle
    /\ BackendIdle
    /\ previous = NoPrevious
    /\ running = NoHandlers
    /\ StoreIdle

CallChunkText ==
    /\ pc = "call"
    /\ chunks' = ChunkText(text)
    /\ pc' = "done"
    /\ UNCHANGED <<text, queryEmbedding, vector, score>>
    /\ UNCHANGED <<previous, running, chatVars, embedVars, backendVars, storeVars>>

NextChunk == CallChunkText

SpecChunk == InitChunk /\ [][NextChunk]_vars

(***************************************************************************)
(* What the claims about ChunkText speak of: the characters R of the       *)
(* input, a window's range, and the range of a window that is left after   *)
(* trimming.  Positions are 0-based and ranges half-open, as in the spec.  *)
(***************************************************************************)
\* The characters [lo, hi) of R, as a string.
Piece(R, lo, hi) == ToString(SubSeq(R, lo + 1, hi))

NonSpaceAt(R, i) == i < Len(R) /\ ~IsSpace(R[i + 1])

\* ceil(n / d) for d > 0 and any integer n.
CeilDiv(n, d) == IF n <= 0 THEN -((-n) \div d) ELSE (n + d - 1) \div d

\* The number of windows whose start is below the length of the input.
WindowCount(R) == CeilDiv(Len(R), Step)

WinStart(k) == k * Step

WinEnd(R, k) == IF k * Step + ChunkSize > Len(R) THEN Len(R) ELSE k * Step + ChunkSize

\* The range [lo, hi) that trimming leaves of window k; lo = hi when the
\* window is all white space.
Kept(R, k) ==
    LET s    == WinStart(k)
        e    == WinEnd(R, k)
        lead == LeadingSpaces(R, s + 1, e)
    IN  IF lead = e - s THEN [lo |-> e, hi |-> e]
        ELSE [lo |-> s + lead, hi |-> e - TrailingSpaces(R, s + 1, e)]

\* The kept range of every window, by window number.
KeptRanges(R) == [k \in 0..(WindowCount(R) - 1) |-> Kept(R, k)]

KeptWindows(W) == {k \in DOMAIN W : W[k].lo < W[k].hi}

AllSpace(R) == \A i \in 1..Len(R) : IsSpace(R[i])

\* R with its leading and trailing white space removed, as a string.
WholeTrimmed(R) ==
    LET lead == LeadingSpaces(R, 1, Len(R))
    IN  IF lead = Len(R) THEN <<>>
        ELSE Piece(R, lead, Len(R) - TrailingSpaces(R, 1, Len(R)))

(***************************************************************************)
(* C1 (as stated): a text of 2500 characters with no white space at the    *)
(* edges of the windows yields exactly the 3 chunks [0,1000), [800,1800)   *)
(* and [1600,2500).                                                        *)
(***************************************************************************)
C1_Scenario(R) ==
    /\ pc = "done"
    /\ Len(R) = 2500
    /\ \A i \in {0, 999, 800, 1799, 1600, 2499, 2400} : NonSpaceAt(R, i)

C3_Case(R) ==
    /\ pc = "done"
    /\ Len(text) > 0
    /\ LET W == KeptRanges(R) IN KeptWindows(W) = DOMAIN W

WindowOfChunk(W, j) ==
    CHOOSE k \in KeptWindows(W) : Cardinality({m \in KeptWindows(W) : m <= k}) = j

C4_WindowsCoverText ==
    pc = "done" =>
        LET R == ToRunes(text)
            W == KeptRanges(R)
            wellFormed == ToString(R) = text
        IN  /\ Len(chunks) = Cardinality(KeptWindows(W))
            /\ \A j \in 1..Len(chunks) :
                  LET t == W[WindowOfChunk(W, j)]
                  IN  /\ ToRunes(chunks[j]) = SubSeq(R, t.lo + 1, t.hi)
                      /\ wellFormed =>
                            chunks[j] = SubSeq(text, EncodedLen(R, 1, t.lo) + 1,
                                               EncodedLen(R, 1, t.hi))
            /\ \A i \in 0..(Len(R) - 1) :
                  NonSpaceAt(R, i) =>
                      \E k \in DOMAIN W : W[k].lo <= i /\ i < W[k].hi

C4_Witness ==
    /\ pc = "done"
    /\ Len(chunks) >= 3
    /\ LET R == ToRunes(text)
           W == KeptRanges(R)
       IN  /\ KeptWindows(W) # DOMAIN W
           /\ Len(text) > Len(R)

(***************************************************************************)
(* C5: every chunk has at most ChunkSize code points, whatever its length  *)
(* in bytes, and is a whole number of characters: it starts and ends at a  *)
(* character boundary of the text, so decoding it gives characters of the  *)
(* text and encoding those gives the chunk back.                           *)
(***************************************************************************)
C5_ChunkWithinSize ==
    pc = "done" =>
        LET R == ToRunes(text)
            W == KeptRanges(R)
        IN  \A j \in 1..Len(chunks) :
                LET r == ToRunes(chunks[j])
                IN  /\ Len(r) <= ChunkSize
                    /\ ToString(r) = chunks[j]
                    /\ \E k \in DOMAIN W : r = SubSeq(R, W[k].lo + 1, W[k].hi)

C5_Witness ==
    /\ pc = "done"
    /\ \E j \in 1..Len(chunks) :
          /\ Len(chunks[j]) > ChunkSize
          /\ Len(ToRunes(chunks[j])) = ChunkSize

(***************************************************************************)
(* C6: no chunk is empty or starts or ends with white space; a window that *)
(* trims to empty yields no chunk; the empty text yields no chunk.         *)
(***************************************************************************)
C6_NoEmptyNoSpace ==
    pc = "done" =>
        /\ \A j \in 1..Len(chunks) :
              LET r == ToRunes(chunks[j])
              IN  /\ Len(chunks[j]) > 0
                  /\ ~IsSpace(r[1])
                  /\ ~IsSpace(r[Len(r)])
        /\ Len(chunks) = Cardinality(KeptWindows(KeptRanges(ToRunes(text))))
        /\ text = <<>> => chunks = <<>>

C6_Witness ==
    /\ pc = "done"
    /\ Len(chunks) >= 1
    /\ LET R == ToRunes(text)
           W == KeptRanges(R)
       IN  KeptWindows(W) # DOMAIN W /\ IsSpace(R[1])

(***************************************************************************)
(* The call  score := CosineSimilarity(queryEmbedding, vector)             *)
(***************************************************************************)
\* Vectors have up to MaxDim components, each in -MaxComp..MaxComp.
MaxDim == 2

MaxComp == 2

RECURSIVE VectorsOfLen(_)
VectorsOfLen(n) ==
    IF n = 0 THEN {<<>>}
    ELSE {Append(v, x) : v \in VectorsOfLen(n - 1), x \in (-MaxComp)..MaxComp}

Vectors == UNION {VectorsOfLen(n) : n \in 0..MaxDim}

InitCosine ==
    /\ queryEmbedding \in Vectors
    /\ vector \in Vectors
    /\ score = FloatZero
    /\ pc = "call"
    /\ text = <<>>
    /\ chunks = <<>>
    /\ ChatIdle
    /\ EmbedIdle
    /\ BackendIdle
    /\ previous = NoPrevious
    /\ running = NoHandlers
    /\ StoreIdle

CallCosineSimilarity ==
    /\ pc = "call"
    /\ score' = CosineSimilarity(queryEmbedding, vector)
    /\ pc' = "done"
    /\ UNCHANGED <<text, chunks, queryEmbedding, vector>>
    /\ UNCHANGED <<previous, running, chatVars, embedVars, backendVars, storeVars>>

NextCosine == CallCosineSimilarity

SpecCosine == InitCosine /\ [][NextCosine]_vars

\* What the claims about CosineSimilarity speak of.
RECURSIVE Dot(_, _)
Dot(u, v) ==
    IF u = <<>> \/ v = <<>> THEN 0
    ELSE Head(u) * Head(v) + Dot(Tail(u), Tail(v))

IsZeroVector(u) == \A i \in 1..Len(u) : u[i] = 0

(***************************************************************************)
(* C7: CosineSimilarity of two vectors of different lengths is exactly     *)
(* 0.0, whatever the similarity of the longer vector's prefix to the       *)
(* shorter vector is.                                                      *)
(***************************************************************************)
C7_LengthMismatchIsZero ==
    (pc = "done" /\ Len(queryEmbedding) # Len(vector)) => score = FloatZero

C7_Witness ==
    /\ pc = "done"
    /\ Len(queryEmbedding) > Len(vector)
    /\ Len(vector) > 0
    /\ Dot(queryEmbedding, vector) # 0
    /\ score = FloatZero

(***************************************************************************)
(* C8: CosineSimilarity is exactly 0.0 when either vector has zero norm    *)
(* (two all-zero vectors and two empty vectors included); for vectors of   *)
(* one length and non-zero norms it is the dot product divided by the      *)
(* product of the Euclidean norms: it has the sign of the dot product and  *)
(* its square times |a|^2 |b|^2 is the square of the dot product.          *)
(***************************************************************************)
C8_ZeroNormIsZeroElseQuotient ==
    pc = "done" =>
        LET a == queryEmbedding
            b == vector
        IN  /\ (IsZeroVector(a) \/ IsZeroVector(b)) => score = FloatZero
            /\ (Len(a) = Len(b) /\ ~IsZeroVector(a) /\ ~IsZeroVector(b)) =>
                  /\ score.q > 0
                  /\ score.sgn * Dot(a, b) >= 0
                  /\ (score.sgn = 0) = (Dot(a, b) = 0)
                  /\ score.p * Dot(a, a) * Dot(b, b) = score.q * Dot(a, b) * Dot(a, b)

C8_Witness ==
    /\ pc = "done"
    /\ Len(queryEmbedding) = MaxDim
    /\ IsZeroVector(queryEmbedding)
    /\ IsZeroVector(vector)
    /\ Len(vector) = MaxDim
    /\ score = FloatZero

(***************************************************************************)
(* Handler.ChatAsk, one request against a store of chunks and embeddings.  *)
(* The request suspends at its two network calls: the embedding of the     *)
(* question and the generation of the answer.                              *)
(***************************************************************************)
\* The store holds up to MaxCand chunks for course "A", each with its
\* embedding.  Vector components are in tenths.
MaxCand == 7

StoredVectors == {<<10, 0>>, <<0, 10>>, <<9, 1>>}

QuestionVectors == {<<10, 0>>}

Requests ==
    {[CourseID |-> "A", Question |-> "q"],
     [CourseID |-> "B", Question |-> "q"],
     [CourseID |-> "A", Question |-> ""]}

ChunkRow(i) ==
    [ID |-> i, CourseID |-> "A", Content |-> i, ChunkNum |-> i - 1]

EmbeddingRow(i, v) ==
    [ID |-> i, ChunkID |-> i, Vector |-> JsonMarshalVector(v)]

\* A 200 reply of the OpenAI embeddings endpoint carrying the vector v, and
\* one whose data element carries no embedding.
OpenAIBody(v) ==
    JsonObject([data |-> JsonArray(<<JsonObject([embedding |-> JsonMarshalVector(v)])>>)])

OpenAIBodyNoEmbedding ==
    JsonObject([data |-> JsonArray(<<JsonObject(NoMembers)>>)])

\* What the embedding backend answers to the question of a chat request.
ChatReplies ==
    {TransportError, Response(200, OpenAIBodyNoEmbedding)}
        \cup {Response(200, OpenAIBody(q)) : q \in QuestionVectors}

\* AIProvider.GenerateText on the reply of the generation backend: "error"
\* stands for each reply the provider turns into an error (transport error,
\* unreadable body, status other than 200, unparseable or empty content).
GenerateText(reply) ==
    IF reply = "error" THEN [text |-> "", err |-> "failed to send request"]
    ELSE [text |-> "answer", err |-> ""]

GenReplies == {"error", "text"}

InitChat ==
    /\ \E n \in 0..MaxCand :
          /\ dbChunks = [i \in 1..n |-> ChunkRow(i)]
          /\ \E vs \in [1..n -> StoredVectors] :
                dbEmbeddings = [i \in 1..n |-> EmbeddingRow(i, vs[i])]
    /\ req = [CourseID |-> "", Question |-> ""]
    /\ scoredChunks = <<>>
    /\ topChunks = <<>>
    /\ prompt = <<>>
    /\ citations = <<>>
    /\ response = NoResponse
    /\ pc = "idle"
    /\ SimilarityIdle
    /\ text = <<>>
    /\ chunks = <<>>
    /\ EmbedIdle
    /\ BackendIdle
    /\ previous = NoPrevious
    /\ running = NoHandlers
    /\ StoreIdle

\* A handler that goes on to rank with no query vector when Embed fails.
ChatAskEmbed_ContinueOnError ==
    /\ pc = "idle"
    /\ \E r \in Requests :
          /\ req' = r
          /\ IF r.CourseID = "" \/ r.Question = ""
               THEN /\ response' = [status |-> 400]
                    /\ pc' = "done"
                    /\ UNCHANGED <<queryEmbedding, embedCalls>>
               ELSE \E h \in ChatReplies :
                      /\ embedCalls' = Append(embedCalls,
                                              [input |-> r.Question, reply |-> h])
                      /\ queryEmbedding' = Embed(provider, h).vector
                      /\ pc' = "embedded"
                      /\ UNCHANGED response
    /\ UNCHANGED <<text, chunks, vector, score, dbChunks, dbEmbeddings,
                   scoredChunks, topChunks, prompt, citations, genCalls>>
    /\ UNCHANGED <<previous, running, embedVars, storeVars>>

\* A handler that sends the citations along with the generation error.
ChatAskGenerate_CitationsOnError ==
    /\ pc = "ranked"
    /\ \E g \in GenReplies :
          /\ genCalls' = Append(genCalls, g)
          /\ response' =
                IF GenerateText(g).err # ""
                  THEN [status |-> 500, error |-> "Failed to generate answer",
                        Citations |-> citations]
                  ELSE [status |-> 200, Answer |-> GenerateText(g).text,
                        Citations |-> citations]
          /\ pc' = "done"
    /\ UNCHANGED <<text, chunks, queryEmbedding, vector, score, dbChunks,
                   dbEmbeddings, req, scoredChunks, topChunks, prompt, citations,
                   embedCalls>>
    /\ UNCHANGED <<previous, running, embedVars, storeVars>>

\* A handler that keeps the query vector of the request before and does not
\* call the embedding backend when the same request comes again.
ChatAskEmbed_Cached ==
    /\ pc = "idle"
    /\ \E r \in Requests :
          /\ req' = r
          /\ IF r.CourseID = "" \/ r.Question = ""
               THEN /\ response' = [status |-> 400]
                    /\ pc' = "done"
                    /\ UNCHANGED <<queryEmbedding, embedCalls>>
               ELSE IF previous.ranked /\ previous.req = r
               THEN /\ queryEmbedding' = previous.query
                    /\ pc' = "embedded"
                    /\ UNCHANGED <<response, embedCalls>>
               ELSE \E h \in ChatReplies \cup {NoReply} :
                      /\ embedCalls' = Append(embedCalls,
                                              [input |-> r.Question, reply |-> h])
                      /\ IF h = NoReply
                           THEN /\ pc' = "embedding"
                                /\ UNCHANGED <<queryEmbedding, response>>
                           ELSE LET e == Embed(provider, h)
                                IN  IF e.err # ""
                                      THEN /\ response' =
                                                [status |-> 500,
                                                 error |-> "Failed to embed question"]
                                           /\ pc' = "done"
                                           /\ UNCHANGED queryEmbedding
                                      ELSE /\ queryEmbedding' = e.vector
                                           /\ pc' = "embedded"
                                           /\ UNCHANGED response
    /\ UNCHANGED <<text, chunks, vector, score, dbChunks, dbEmbeddings,
                   scoredChunks, topChunks, prompt, citations, genCalls>>
    /\ UNCHANGED <<previous, running, embedVars, storeVars>>

\* c.ShouldBindJSON(&req) with both fields required, then
\* h.embeddingProvider.Embed(req.Question).  The client of the provider is
\* http.Client{} with no Timeout: while the backend does not answer, the
\* handler stays in client.Do (pc = "embedding") and nothing ends the wait.
ChatAskEmbed ==
    /\ pc = "idle"
    /\ \E r \in Requests :
          /\ req' = r
          /\ IF r.CourseID = "" \/ r.Question = ""
               THEN /\ response' = [status |-> 400]
                    /\ pc' = "done"
                    /\ UNCHANGED <<queryEmbedding, embedCalls>>
               ELSE \E h \in ChatReplies \cup {NoReply} :
                      /\ embedCalls' = Append(embedCalls,
                                              [input |-> r.Question, reply |-> h])
                      /\ IF h = NoReply
                           THEN /\ pc' = "embedding"
                                /\ UNCHANGED <<queryEmbedding, response>>
                           ELSE LET e == Embed(provider, h)
                                IN  IF e.err # ""
                                      THEN /\ response' =
                                                [status |-> 500,
                                                 error |-> "Failed to embed question"]
                                           /\ pc' = "done"
                                           /\ UNCHANGED queryEmbedding
                                      ELSE /\ queryEmbedding' = e.vector
                                           /\ pc' = "embedded"
                                           /\ UNCHANGED response
    /\ UNCHANGED <<text, chunks, vector, score, dbChunks, dbEmbeddings,
                   scoredChunks, topChunks, prompt, citations, genCalls>>
    /\ UNCHANGED <<previous, running, embedVars, storeVars>>

\* A handler that removes from the table the embeddings it has loaded.
ChatAskRank_ConsumesEmbeddings ==
    /\ pc = "embedded"
    /\ LET cs     == LoadChunks(dbChunks, req.CourseID)
           es     == LoadEmbeddings(dbChunks, dbEmbeddings, req.CourseID)
           sorted == SortScored(ScoreChunks(queryEmbedding, cs, es))
           top    == TopChunks(sorted)
       IN  /\ scoredChunks' = sorted
           /\ topChunks' = top
           /\ prompt' = BuildPrompt(top)
           /\ citations' = BuildCitations(top)
           /\ dbEmbeddings' =
                 SelectSeq(dbEmbeddings,
                           LAMBDA e : \A k \in 1..Len(es) : es[k].ID # e.ID)
    /\ pc' = "ranked"
    /\ UNCHANGED <<text, chunks, queryEmbedding, vector, score, dbChunks,
                   req, response>>
    /\ UNCHANGED <<previous, running, embedVars, backendVars, storeVars>>

\* A ranking that leaves the order of equal scores to chance: any order of
\* the candidates in which no score is followed by a higher one.
ChatAskRank_AnyTieOrder ==
    /\ pc = "embedded"
    /\ LET cs   == LoadChunks(dbChunks, req.CourseID)
           es   == LoadEmbeddings(dbChunks, dbEmbeddings, req.CourseID)
           cand == ScoreChunks(queryEmbedding, cs, es)
           n    == Len(cand)
       IN  \E f \in [1..n -> 1..n] :
              /\ \A i, j \in 1..n : i # j => f[i] # f[j]
              /\ \A i, j \in 1..n :
                    i < j => ~FloatGreater(cand[f[j]].Score, cand[f[i]].Score)
              /\ LET sorted == [i \in 1..n |-> cand[f[i]]]
                     top    == TopChunks(sorted)
                 IN  /\ scoredChunks' = sorted
                     /\ topChunks' = top
                     /\ prompt' = BuildPrompt(top)
                     /\ citations' = BuildCitations(top)
    /\ pc' = "ranked"
    /\ UNCHANGED <<text, chunks, queryEmbedding, vector, score, dbChunks,
                   dbEmbeddings, req, response>>
    /\ UNCHANGED <<previous, running, embedVars, backendVars, storeVars>>

\* The two queries, the scoring loop, the sort, the selection and the
\* assembly of context and citations.
ChatAskRank ==
    /\ pc = "embedded"
    /\ LET cs     == LoadChunks(dbChunks, req.CourseID)
           es     == LoadEmbeddings(dbChunks, dbEmbeddings, req.CourseID)
           sorted == SortScored(ScoreChunks(queryEmbedding, cs, es))
           top    == TopChunks(sorted)
       IN  /\ scoredChunks' = sorted
           /\ topChunks' = top
           /\ prompt' = BuildPrompt(top)
           /\ citations' = BuildCitations(top)
    /\ pc' = "ranked"
    /\ UNCHANGED <<text, chunks, queryEmbedding, vector, score, dbChunks,
                   dbEmbeddings, req, response>>
    /\ UNCHANGED <<previous, running, embedVars, backendVars, storeVars>>

\* h.aiProvider.GenerateText(req.Question, systemPrompt) and the response.
\* The provider's client has no Timeout either (pc = "generating").
ChatAskGenerate ==
    /\ pc = "ranked"
    /\ \E g \in GenReplies \cup {"none"} :
          /\ genCalls' = Append(genCalls, g)
          /\ IF g = "none"
               THEN /\ pc' = "generating"
                    /\ UNCHANGED response
               ELSE LET r == GenerateText(g)
                    IN  /\ response' =
                             IF r.err # ""
                               THEN [status |-> 500,
                                     error |-> "Failed to generate answer"]
                               ELSE [status |-> 200, Answer |-> r.text,
                                     Citations |-> citations]
                        /\ pc' = "done"
    /\ UNCHANGED <<text, chunks, queryEmbedding, vector, score, dbChunks,
                   dbEmbeddings, req, scoredChunks, topChunks, prompt, citations,
                   embedCalls>>
    /\ UNCHANGED <<previous, running, embedVars, storeVars>>

NextChat == ChatAskEmbed \/ ChatAskRank \/ ChatAskGenerate

SpecChat == InitChat /\ [][NextChat]_vars

\* What the claims about the ranking speak of: the scored candidates of
\* the request, in the order the scoring loop appends them.
Candidates ==
    ScoreChunks(queryEmbedding, LoadChunks(dbChunks, req.CourseID),
                LoadEmbeddings(dbChunks, dbEmbeddings, req.CourseID))

Ranked == pc = "ranked" \/ (pc = "done" /\ response.status = 200)

ChunkIDs(s) == [i \in 1..Len(s) |-> s[i].Chunk.ID]

(***************************************************************************)
(* C9: of n scored candidates the ranking selects min(TopK, n): each       *)
(* selected entry is a candidate, none is selected twice, the selection is *)
(* in non-increasing score order, and no candidate left out scores higher  *)
(* than a selected one.                                                    *)
(***************************************************************************)
C9_TopKSelection ==
    Ranked =>
        LET cand == Candidates
            n    == Len(cand)
            sel  == {topChunks[i] : i \in 1..Len(topChunks)}
            all  == {cand[i] : i \in 1..n}
        IN  /\ Len(topChunks) = IF TopK < n THEN TopK ELSE n
            /\ sel \subseteq all
            /\ Cardinality(sel) = Len(topChunks)
            /\ \A i, j \in 1..Len(topChunks) :
                  i < j => ~FloatGreater(topChunks[j].Score, topChunks[i].Score)
            /\ \A c \in all \ sel, t \in sel : ~FloatGreater(c.Score, t.Score)

C9_Witness ==
    /\ pc = "ranked"
    /\ Len(topChunks) = TopK
    /\ LET cand == Candidates
       IN  /\ Len(cand) > TopK
           /\ ChunkIDs(topChunks) # ChunkIDs(SubSeq(cand, 1, TopK))
           /\ FloatGreater(topChunks[1].Score, topChunks[TopK].Score)
           /\ FloatGreater(topChunks[TopK].Score, FloatZero)

(***************************************************************************)
(* C10 (as stated): with stored vectors [1,0], [0,1], [0.9,0.1] for        *)
(* chunks 1, 2, 3 and the query vector [1,0], the selection is chunk 1     *)
(* (score 1.0) and then chunk 3; chunk 2 is excluded.                      *)
(***************************************************************************)
C10_Scenario ==
    /\ Ranked
    /\ req.CourseID = "A"
    /\ queryEmbedding = <<10, 0>>
    /\ Len(dbChunks) = 3
    /\ [i \in 1..Len(dbEmbeddings) |-> JsonUnmarshalVector(dbEmbeddings[i].Vector)]
          = << <<10, 0>>, <<0, 10>>, <<9, 1>> >>

C10_TopTwoExcludesChunk2 ==
    C10_Scenario =>
        /\ ChunkIDs(topChunks) = <<1, 3>>
        /\ topChunks[1].Score = FloatOne

(***************************************************************************)
(* C10 (amended): the selection has TopK = 6 places, so all three chunks   *)
(* are selected: chunk 1 first (score 1.0), chunk 3 second (0.99 to two    *)
(* places, below 1.0) and chunk 2 third (score 0.0), ranked last but not   *)
(* excluded.                                                               *)
(***************************************************************************)
C10_AllThreeRanked ==
    C10_Scenario =>
        /\ ChunkIDs(topChunks) = <<1, 3, 2>>
        /\ topChunks[1].Score = FloatOne
        /\ FloatGreater(FloatOne, topChunks[2].Score)
        /\ Hundredths(topChunks[2].Score) = 99
        /\ topChunks[3].Score = FloatZero

C10_Witness == C10_Scenario /\ Len(topChunks) = 3 /\ pc = "ranked"

(***************************************************************************)
(* The error paths of ChatAsk                                              *)
(***************************************************************************)
\* The question of the request under way was embedded: Embed returned a
\* vector and no error.
QuestionEmbedded ==
    /\ Len(embedCalls) = 1
    /\ embedCalls[1].reply # NoReply
    /\ Embed(provider, embedCalls[1].reply).err = ""

\* Embed returned an error for the question.
QuestionEmbedFailed ==
    /\ Len(embedCalls) = 1
    /\ embedCalls[1].reply # NoReply
    /\ Embed(provider, embedCalls[1].reply).err # ""

\* The stored (chunk, vector) pairs of the course of the request.
StoredPairs == LoadEmbeddings(dbChunks, dbEmbeddings, req.CourseID)

(***************************************************************************)
(* C11: a ChatAsk request for a course with no stored (chunk, vector) pair *)
(* is aborted with a NoContent error, which is not the embedding-failure   *)
(* error: the text-generation backend is not called and no answer is       *)
(* returned.                                                               *)
(***************************************************************************)
C11_NoContentAbort ==
    (QuestionEmbedded /\ StoredPairs = <<>>) =>
        /\ genCalls = <<>>
        /\ pc = "done" =>
              /\ response.status # 200
              /\ "Answer" \notin DOMAIN response
              /\ "error" \in DOMAIN response
              /\ response.error # "Failed to embed question"

(***************************************************************************)
(* C12: when the embedding of the question fails, the request ends with    *)
(* the embedding-failure error: no candidate is loaded or ranked, the      *)
(* text-generation backend is not called, and the response carries neither *)
(* an answer nor citations.                                                *)
(***************************************************************************)
C12_EmbedFailureAborts ==
    QuestionEmbedFailed =>
        /\ pc = "done"
        /\ response = [status |-> 500, error |-> "Failed to embed question"]
        /\ scoredChunks = <<>>
        /\ topChunks = <<>>
        /\ prompt = <<>>
        /\ citations = <<>>
        /\ genCalls = <<>>

C12_Witness ==
    /\ QuestionEmbedFailed
    /\ pc = "done"
    /\ StoredPairs # <<>>

(***************************************************************************)
(* C13: when the generation of the answer fails, the response is the       *)
(* generation-failure error and nothing else: no answer text and none of   *)
(* the citations the request had assembled.                                *)
(***************************************************************************)
C13_GenerateFailureOnlyError ==
    (genCalls # <<>> /\ genCalls[1] = "error") =>
        /\ pc = "done"
        /\ response = [status |-> 500, error |-> "Failed to generate answer"]

C13_Witness ==
    /\ genCalls = <<"error">>
    /\ pc = "done"
    /\ citations # <<>>

(***************************************************************************)
(* C19: a ChatAsk request whose embedding or generation backend never      *)
(* answers still ends: the wait for a backend is bounded by a timeout, so  *)
(* a handler that is waiting always has a step it can take.                *)
(***************************************************************************)
C19_WaitIsBounded ==
    pc \in {"embedding", "generating"} => ENABLED NextChat

(***************************************************************************)
(* Embed on its own: each provider on each reply of its backend            *)
(***************************************************************************)
EmbedVectors == QuestionVectors \cup StoredVectors

\* The JSON values a reply can hold where the vector should be.
EmbeddingValues ==
    {JsonNull, JsonString, JsonArray(<<>>), JsonArray(<<JsonString>>)}
        \cup {JsonMarshalVector(v) : v \in EmbedVectors}

\* Bodies in the shape of the Ollama endpoint, {"embedding": ...}, the
\* empty object among them, and in the shape of the OpenAI endpoint,
\* {"data": [{"embedding": ...}]}.
OllamaBodies ==
    {JsonObject(NoMembers)}
        \cup {JsonObject([embedding |-> e]) : e \in EmbeddingValues}

OpenAIBodies ==
    {JsonObject([data |-> d]) : d \in {JsonNull, JsonString, JsonArray(<<>>)}}
        \cup {JsonObject([data |-> JsonArray(<<item>>)]) :
                 item \in {JsonNull, JsonString} \cup OllamaBodies}

Bodies == {JsonInvalid, JsonNull, JsonString} \cup OllamaBodies \cup OpenAIBodies

Statuses == {200, 401, 500}

Replies ==
    {TransportError}
        \cup {ReadError(st) : st \in Statuses}
        \cup {Response(st, b) : st \in Statuses, b \in Bodies}

InitEmbed ==
    /\ provider \in {"openai", "ollama"}
    /\ httpReply \in Replies
    /\ embedResult = [vector |-> <<>>, err |-> ""]
    /\ pc = "call"
    /\ text = <<>>
    /\ chunks = <<>>
    /\ SimilarityIdle
    /\ ChatIdle
    /\ BackendIdle
    /\ previous = NoPrevious
    /\ running = NoHandlers
    /\ StoreIdle

CallEmbed ==
    /\ pc = "call"
    /\ embedResult' = Embed(provider, httpReply)
    /\ pc' = "done"
    /\ UNCHANGED <<text, chunks, queryEmbedding, vector, score, provider, httpReply>>
    /\ UNCHANGED <<previous, running, chatVars, backendVars, storeVars>>

NextEmbed == CallEmbed

SpecEmbed == InitEmbed /\ [][NextEmbed]_vars

\* A JSON value that is a vector: a non-empty array of numbers.
IsVector(j) ==
    /\ j.json = "array"
    /\ Len(j.elems) > 0
    /\ \A i \in 1..Len(j.elems) : j.elems[i].json = "number"

HasMember(j, key) == j.json = "object" /\ key \in DOMAIN j.members

\* The body holds a vector where provider p looks for it.
YieldsVector(p, b) ==
    IF p = "ollama"
      THEN HasMember(b, "embedding") /\ IsVector(b.members.embedding)
      ELSE /\ HasMember(b, "data")
           /\ b.members.data.json = "array"
           /\ Len(b.members.data.elems) > 0
           /\ HasMember(b.members.data.elems[1], "embedding")
           /\ IsVector(b.members.data.elems[1].members.embedding)

(***************************************************************************)
(* C20: Embed, of either provider, returns an error and no vector when the *)
(* request fails in transport, when the status is not 200, and when the    *)
(* body does not hold a vector of the expected shape (it is not JSON, or   *)
(* the embedding is missing or empty); it never returns success with an    *)
(* empty vector.                                                           *)
(***************************************************************************)
C20_NoVectorIsAnError ==
    pc = "done" =>
        /\ (\/ httpReply.kind # "response"
            \/ httpReply.status # 200
            \/ ~YieldsVector(provider, httpReply.body))
              => (embedResult.err # "" /\ embedResult.vector = <<>>)
        /\ ~(embedResult.err = "" /\ embedResult.vector = <<>>)

(***************************************************************************)
(* The store: Handler.UploadPDF and Handler.DeleteSourceFile write the     *)
(* tables, Handler.ChatAsk reads them.  The server takes one request at a  *)
(* time here: a request starts when pc = "idle", and NextRequest takes the *)
(* server back to idle when the handler has returned.                      *)
(***************************************************************************)
\* How many uploads draw identifiers.
MaxUploads == 2

\* The uploaded files, each as the chunks ChunkText returns for its text.
UploadedChunks == {<<>>, <<1>>, <<1, 2>>}

\* uuid.New(): every identifier is new.  The n-th upload to draw
\* identifiers gets the course identifier UuidString(n) and the file
\* identifier n, and its i-th chunk gets ChunkUuid(n, i) for the chunk and
\* EmbeddingUuid(n, i) for the embedding.
ChunkUuid(n, i) == 100 * n + 2 * i

EmbeddingUuid(n, i) == 100 * n + 2 * i + 1

UuidString(n) ==
    <<"A", "B", "C", "D", "E", "F", "G", "H", "I", "J", "K", "L", "M", "N",
      "O", "P", "Q", "R", "S", "T", "U", "V", "W", "X", "Y", "Z", "AA", "AB",
      "AC", "AD", "AE", "AF", "AG", "AH", "AI", "AJ", "AK", "AL", "AM", "AN",
      "AO", "AP", "AQ", "AR", "AS", "AT", "AU", "AV", "AW", "AX">>[n]

CourseRow(id) == [ID |-> id]

SourceFileRow(id, courseID) == [ID |-> id, CourseID |-> courseID]

\* models.Chunk as UploadPDF fills it; ChunkNum is the 0-based loop index.
NewChunk(id, courseID, sourceFileID, content, i) ==
    [ID |-> id, CourseID |-> courseID, SourceFileID |-> sourceFileID,
     Content |-> content, ChunkNum |-> i - 1]

\* models.Embedding as UploadPDF fills it.
NewEmbedding(id, chunkID, v, p) ==
    [ID |-> id, ChunkID |-> chunkID, Vector |-> JsonMarshalVector(v),
     Dimension |-> GetDimension(p)]

\* h.db.Create(embeddingModel): chunk_id carries a unique index, so the
\* insert is refused when the chunk already has an embedding.
InsertEmbedding(tbl, row) ==
    IF \E k \in 1..Len(tbl) : tbl[k].ChunkID = row.ChunkID THEN tbl
    ELSE Append(tbl, row)

CourseExists(id) == \E k \in 1..Len(dbCourses) : dbCourses[k].ID = id

\* The form of an upload request: the file part (a PDF within the size
\* limit, or one of the three the handler refuses) and course_id.
UploadFiles == {"pdf", "none", "notpdf", "toolarge"}

UploadCourseIDs == {"", "B"} \cup {dbCourses[k].ID : k \in 1..Len(dbCourses)}

\* What the embedding backend answers to a chunk: a failure, or the vector
\* of that text.
ChunkVector(chunk) == IF chunk = 1 THEN <<9, 1>> ELSE <<0, 10>>

UploadReplies(chunk) ==
    {TransportError, Response(200, OpenAIBody(ChunkVector(chunk)))}

\* The response of a finished upload.
UploadOK(u) ==
    [status |-> 200, CourseID |-> u.courseID, Chunks |-> Len(u.chunks)]

\* An upload that gives up when the embedding of a chunk fails.
UploadPDFChunk_AbortOnEmbedError ==
    /\ pc = "uploading"
    /\ LET i       == upload.i
           chunk   == upload.chunks[i]
           chunkID == ChunkUuid(upload.sourceFileID, i)
           last    == i = Len(upload.chunks)
       IN  /\ dbChunks' = Append(dbChunks,
                                 NewChunk(chunkID, upload.courseID,
                                          upload.sourceFileID, chunk, i))
           /\ \E h \in UploadReplies(chunk) :
                 /\ embedCalls' = Append(embedCalls, [input |-> chunk, reply |-> h])
                 /\ LET e == Embed(provider, h)
                    IN  IF e.err # ""
                          THEN /\ response' = [status |-> 500,
                                               error |-> "Failed to embed chunk"]
                               /\ pc' = "uploaded"
                               /\ UNCHANGED <<dbEmbeddings, upload>>
                          ELSE /\ dbEmbeddings' =
                                     InsertEmbedding(dbEmbeddings,
                                         NewEmbedding(
                                             EmbeddingUuid(upload.sourceFileID, i),
                                             chunkID, e.vector, provider))
                               /\ upload' = [upload EXCEPT !.i = i + 1]
                               /\ response' = IF last THEN UploadOK(upload)
                                              ELSE response
                               /\ pc' = IF last THEN "uploaded" ELSE pc
    /\ UNCHANGED <<text, chunks, queryEmbedding, vector, score, req, scoredChunks,
                   topChunks, prompt, citations, genCalls, dbCourses,
                   dbSourceFiles, deleted, uuids>>
    /\ UNCHANGED <<previous, running, embedVars>>

\* A delete that removes the chunks of the file and leaves their embeddings.
DeleteSourceFile_KeepEmbeddings ==
    /\ pc = "idle"
    /\ \E cid \in {dbCourses[k].ID : k \in 1..Len(dbCourses)},
          fid \in {dbSourceFiles[k].ID : k \in 1..Len(dbSourceFiles)} :
          /\ \E k \in 1..Len(dbSourceFiles) :
                dbSourceFiles[k].ID = fid /\ dbSourceFiles[k].CourseID = cid
          /\ LET files == SelectSeq(dbSourceFiles, LAMBDA f : f.ID # fid)
                 left  == SelectSeq(files, LAMBDA f : f.CourseID = cid)
             IN  /\ dbChunks' = SelectSeq(dbChunks, LAMBDA c : c.SourceFileID # fid)
                 /\ dbSourceFiles' = files
                 /\ dbCourses' = IF Len(left) = 0
                                   THEN SelectSeq(dbCourses, LAMBDA c : c.ID # cid)
                                   ELSE dbCourses
                 /\ deleted' = [courseID |-> cid, fileID |-> fid,
                                remaining |-> Len(left)]
                 /\ response' = [status |-> 200, files_remaining |-> Len(left)]
    /\ pc' = "deleted"
    /\ UNCHANGED <<text, chunks, queryEmbedding, vector, score, req, scoredChunks,
                   topChunks, prompt, citations, dbEmbeddings, upload, uuids>>
    /\ UNCHANGED <<previous, running, embedVars, backendVars>>

\* A delete that removes every chunk of the course, whatever its file.
DeleteSourceFile_WholeCourse ==
    /\ pc = "idle"
    /\ \E cid \in {dbCourses[k].ID : k \in 1..Len(dbCourses)},
          fid \in {dbSourceFiles[k].ID : k \in 1..Len(dbSourceFiles)} :
          /\ \E k \in 1..Len(dbSourceFiles) :
                dbSourceFiles[k].ID = fid /\ dbSourceFiles[k].CourseID = cid
          /\ LET gone  == {dbChunks[k].ID : k \in {j \in 1..Len(dbChunks) :
                                                     dbChunks[j].CourseID = cid}}
                 files == SelectSeq(dbSourceFiles, LAMBDA f : f.ID # fid)
                 left  == SelectSeq(files, LAMBDA f : f.CourseID = cid)
             IN  /\ dbEmbeddings' = SelectSeq(dbEmbeddings,
                                              LAMBDA e : e.ChunkID \notin gone)
                 /\ dbChunks' = SelectSeq(dbChunks, LAMBDA c : c.CourseID # cid)
                 /\ dbSourceFiles' = files
                 /\ dbCourses' = IF Len(left) = 0
                                   THEN SelectSeq(dbCourses, LAMBDA c : c.ID # cid)
                                   ELSE dbCourses
                 /\ deleted' = [courseID |-> cid, fileID |-> fid,
                                remaining |-> Len(left)]
                 /\ response' = [status |-> 200, files_remaining |-> Len(left)]
    /\ pc' = "deleted"
    /\ UNCHANGED <<text, chunks, queryEmbedding, vector, score, req, scoredChunks,
                   topChunks, prompt, citations, upload, uuids>>
    /\ UNCHANGED <<previous, running, embedVars, backendVars>>

InitStore ==
    /\ pc = "idle"
    /\ text = <<>>
    /\ chunks = <<>>
    /\ SimilarityIdle
    /\ ChatIdle
    /\ EmbedIdle
    /\ BackendIdle
    /\ previous = NoPrevious
    /\ running = NoHandlers
    /\ StoreIdle

\* UploadPDF up to the loop over the chunks: the checks of the form, the
\* course, the file on disk, the extraction and chunking of its text, and
\* the course and source-file records.
UploadPDFStart ==
    /\ pc = "idle"
    /\ \E f \in UploadFiles, cid \in UploadCourseIDs, cs \in UploadedChunks,
          o \in {"ok", "saveFailed", "extractFailed", "courseCreateFailed",
                 "fileCreateFailed"} :
          LET isNewCourse  == cid = ""
              courseID     == IF isNewCourse THEN UuidString(uuids + 1) ELSE cid
              sourceFileID == uuids + 1
              n            == Len(cs)
              withCourse   == IF isNewCourse
                                THEN Append(dbCourses, CourseRow(courseID))
                                ELSE dbCourses
              up           == [courseID |-> courseID, sourceFileID |-> sourceFileID,
                               chunks |-> cs, i |-> 1]
          IN  IF f # "pdf"
                THEN /\ response' =
                           [status |-> 400,
                            error |-> IF f = "none" THEN "No file provided"
                                      ELSE IF f = "notpdf"
                                             THEN "Only PDF files are allowed"
                                      ELSE "File size exceeds 50MB limit"]
                     /\ pc' = "uploaded"
                     /\ UNCHANGED <<dbCourses, dbSourceFiles, upload, uuids>>
              ELSE IF ~isNewCourse /\ ~CourseExists(cid)
                THEN /\ response' = [status |-> 404, error |-> "Course not found"]
                     /\ pc' = "uploaded"
                     /\ UNCHANGED <<dbCourses, dbSourceFiles, upload, uuids>>
              ELSE /\ uuids < MaxUploads
                   /\ uuids' = sourceFileID
                   /\ o = "courseCreateFailed" => isNewCourse
                   /\ IF o = "ok"
                        THEN /\ dbCourses' = withCourse
                             /\ dbSourceFiles' =
                                   Append(dbSourceFiles,
                                          SourceFileRow(sourceFileID, courseID))
                             /\ upload' = up
                             /\ response' = IF n = 0 THEN UploadOK(up) ELSE response
                             /\ pc' = IF n = 0 THEN "uploaded" ELSE "uploading"
                        ELSE /\ dbCourses' = IF o = "fileCreateFailed"
                                               THEN withCourse ELSE dbCourses
                             /\ response' =
                                   [status |-> 500,
                                    error |->
                                      IF o = "saveFailed" THEN "Failed to save file"
                                      ELSE IF o = "extractFailed"
                                        THEN "Failed to extract text from PDF"
                                      ELSE IF o = "courseCreateFailed"
                                        THEN "Failed to create course"
                                      ELSE "Failed to create source file record"]
                             /\ pc' = "uploaded"
                             /\ UNCHANGED <<dbSourceFiles, upload>>
    /\ UNCHANGED <<text, chunks, queryEmbedding, vector, score, dbChunks,
                   dbEmbeddings, req, scoredChunks, topChunks, prompt, citations,
                   deleted>>
    /\ UNCHANGED <<previous, running, embedVars, backendVars>>

\* One turn of the loop  for i, chunk := range chunks : the chunk record,
\* the embedding of the chunk and the embedding record; after the last
\* turn, the response.  A Create that fails leaves the table as it was.
\* While the embedding backend does not answer, the handler stays in
\* client.Do (pc = "awaiting").
UploadPDFChunk ==
    /\ pc = "uploading"
    /\ LET i       == upload.i
           chunk   == upload.chunks[i]
           chunkID == ChunkUuid(upload.sourceFileID, i)
           last    == i = Len(upload.chunks)
           next    == /\ upload' = [upload EXCEPT !.i = i + 1]
                      /\ response' = IF last THEN UploadOK(upload) ELSE response
                      /\ pc' = IF last THEN "uploaded" ELSE pc
       IN  \/ /\ next
              /\ UNCHANGED <<dbChunks, dbEmbeddings, embedCalls>>
           \/ /\ dbChunks' = Append(dbChunks,
                                    NewChunk(chunkID, upload.courseID,
                                             upload.sourceFileID, chunk, i))
              /\ \E h \in UploadReplies(chunk) \cup {NoReply} :
                    /\ embedCalls' = Append(embedCalls,
                                            [input |-> chunk, reply |-> h])
                    /\ IF h = NoReply
                         THEN /\ pc' = "awaiting"
                              /\ UNCHANGED <<dbEmbeddings, upload, response>>
                         ELSE LET e == Embed(provider, h)
                              IN  IF e.err # ""
                                    THEN /\ next
                                         /\ UNCHANGED dbEmbeddings
                                    ELSE /\ next
                                         /\ \/ dbEmbeddings' =
                                                 InsertEmbedding(dbEmbeddings,
                                                     NewEmbedding(
                                                         EmbeddingUuid(
                                                             upload.sourceFileID, i),
                                                         chunkID, e.vector, provider))
                                            \/ UNCHANGED dbEmbeddings
    /\ UNCHANGED <<text, chunks, queryEmbedding, vector, score, req, scoredChunks,
                   topChunks, prompt, citations, genCalls, dbCourses,
                   dbSourceFiles, deleted, uuids>>
    /\ UNCHANGED <<previous, running, embedVars>>

DeleteCourseIDs == {"B"} \cup {dbCourses[k].ID : k \in 1..Len(dbCourses)}

\* DeleteSourceFile with path parameters cid and fid.  The deletes of the
\* embeddings, of the chunks and of the course are issued with their result
\* unread; the delete of the source-file record is the one whose failure
\* the handler answers.  (The slides and chat messages of the course, which
\* the last branch deletes too, are not part of this model.)
DeleteSourceFile ==
    /\ pc = "idle"
    /\ \E cid \in DeleteCourseIDs,
          fid \in {0} \cup {dbSourceFiles[k].ID : k \in 1..Len(dbSourceFiles)} :
          IF ~\E k \in 1..Len(dbSourceFiles) :
                  dbSourceFiles[k].ID = fid /\ dbSourceFiles[k].CourseID = cid
            THEN /\ response' = [status |-> 404, error |-> "File not found"]
                 /\ deleted' = [courseID |-> cid, fileID |-> fid, remaining |-> 0]
                 /\ UNCHANGED <<dbCourses, dbSourceFiles, dbChunks, dbEmbeddings>>
            ELSE LET gone  == {dbChunks[k].ID : k \in {j \in 1..Len(dbChunks) :
                                                  dbChunks[j].SourceFileID = fid}}
                     files == SelectSeq(dbSourceFiles, LAMBDA f : f.ID # fid)
                     left  == SelectSeq(files, LAMBDA f : f.CourseID = cid)
                 IN  /\ dbEmbeddings' = SelectSeq(dbEmbeddings,
                                                  LAMBDA e : e.ChunkID \notin gone)
                     /\ dbChunks' = SelectSeq(dbChunks,
                                              LAMBDA c : c.SourceFileID # fid)
                     /\ \/ /\ response' =
                                 [status |-> 500,
                                  error |-> "Failed to delete file record"]
                           /\ deleted' = [courseID |-> cid, fileID |-> fid,
                                          remaining |-> 0]
                           /\ UNCHANGED <<dbSourceFiles, dbCourses>>
                        \/ /\ dbSourceFiles' = files
                           /\ dbCourses' =
                                 IF Len(left) = 0
                                   THEN SelectSeq(dbCourses, LAMBDA c : c.ID # cid)
                                   ELSE dbCourses
                           /\ deleted' = [courseID |-> cid, fileID |-> fid,
                                          remaining |-> Len(left)]
                           /\ response' = [status |-> 200,
                                           files_remaining |-> Len(left)]
    /\ pc' = "deleted"
    /\ UNCHANGED <<text, chunks, queryEmbedding, vector, score, req, scoredChunks,
                   topChunks, prompt, citations, upload, uuids>>
    /\ UNCHANGED <<previous, running, embedVars, backendVars>>

\* The handler has returned; the server takes the next request.
NextRequest ==
    /\ pc \in {"uploaded", "deleted", "done"}
    /\ pc' = "idle"
    /\ queryEmbedding' = <<>>
    /\ req' = [CourseID |-> "", Question |-> ""]
    /\ scoredChunks' = <<>>
    /\ topChunks' = <<>>
    /\ prompt' = <<>>
    /\ citations' = <<>>
    /\ response' = NoResponse
    /\ embedCalls' = <<>>
    /\ genCalls' = <<>>
    /\ upload' = NoUpload
    /\ deleted' = NoDelete
    /\ UNCHANGED <<text, chunks, vector, score, dbChunks, dbEmbeddings, dbCourses,
                   dbSourceFiles, uuids>>
    /\ UNCHANGED <<previous, running, embedVars>>

NextStore ==
    \/ UploadPDFStart
    \/ UploadPDFChunk
    \/ DeleteSourceFile
    \/ ChatAskEmbed
    \/ ChatAskRank
    \/ ChatAskGenerate
    \/ NextRequest

SpecStore == InitStore /\ [][NextStore]_vars

\* The chunk record of the k-th chunk of the upload under way, if it was
\* saved, as a set of rows; and the embedding records of a chunk.
UploadedChunkRows(k) ==
    {dbChunks[j] : j \in {j \in 1..Len(dbChunks) :
                            /\ dbChunks[j].SourceFileID = upload.sourceFileID
                            /\ dbChunks[j].ChunkNum = k - 1}}

EmbeddingsOf(chunkID) ==
    {j \in 1..Len(dbEmbeddings) : dbEmbeddings[j].ChunkID = chunkID}

\* The calls of Embed for the k-th chunk of the upload under way.
EmbedCallsFor(k) ==
    {j \in 1..Len(embedCalls) : embedCalls[j].input = upload.chunks[k]}

\* Embed returned an error for the k-th chunk.
EmbedFailedFor(k) ==
    \E j \in EmbedCallsFor(k) :
        /\ embedCalls[j].reply # NoReply
        /\ Embed(provider, embedCalls[j].reply).err # ""

(***************************************************************************)
(* C14: no step of ChatAsk, on its success path or on any of its error     *)
(* paths, creates, changes or deletes a chunk record or an embedding       *)
(* record.                                                                 *)
(***************************************************************************)
C14_ChatAskReadsOnly ==
    [][pc' \in {"embedding", "embedded", "ranked", "generating", "done"}
          => UNCHANGED <<dbChunks, dbEmbeddings>>]_vars

C14_Witness ==
    /\ pc = "done"
    /\ response.status = 200
    /\ topChunks # <<>>
    /\ Len(dbEmbeddings) < Len(dbChunks)

(***************************************************************************)
(* C15: when, during UploadPDF, the embedding of a chunk fails, the chunk  *)
(* stays saved with no vector, the failed call is not repeated, the upload *)
(* goes on with the chunks after it, and it reports success.               *)
(***************************************************************************)
C15_EmbedFailureLeavesHole ==
    pc \in {"uploading", "awaiting", "uploaded"} =>
        \A k \in 1..Len(upload.chunks) :
            EmbedFailedFor(k) =>
                /\ Cardinality(UploadedChunkRows(k)) = 1
                /\ \A c \in UploadedChunkRows(k) :
                      /\ c.Content = upload.chunks[k]
                      /\ EmbeddingsOf(c.ID) = {}
                /\ Cardinality(EmbedCallsFor(k)) = 1
                /\ upload.i > k
                /\ \A j \in (k + 1)..(upload.i - 1) :
                      UploadedChunkRows(j) # {} => EmbedCallsFor(j) # {}
                /\ pc = "uploaded" =>
                      /\ upload.i = Len(upload.chunks) + 1
                      /\ response = UploadOK(upload)

C15_Witness ==
    /\ pc = "uploaded"
    /\ Len(upload.chunks) = 2
    /\ EmbedFailedFor(1)
    /\ \E c \in UploadedChunkRows(2) : EmbeddingsOf(c.ID) # {}
    /\ response.status = 200

(***************************************************************************)
(* C16: with a chunk saved without a vector, ChatAsk scores exactly the    *)
(* chunks of the course that have an embedding record: the chunk without   *)
(* one is not scored, ranked or cited, the scored candidates are fewer     *)
(* than the chunks, and the request fails only when the generation fails.  *)
(***************************************************************************)
C16_HolesAreNotScored ==
    (QuestionEmbedded /\ pc \in {"ranked", "generating", "done"}) =>
        LET cs      == LoadChunks(dbChunks, req.CourseID)
            all     == {cs[i] : i \in 1..Len(cs)}
            withVec == {c \in all : EmbeddingsOf(c.ID) # {}}
            scored  == {scoredChunks[i].Chunk : i \in 1..Len(scoredChunks)}
            top     == {topChunks[i].Chunk : i \in 1..Len(topChunks)}
        IN  /\ scored = withVec
            /\ Len(scoredChunks) = Cardinality(withVec)
            /\ top \subseteq withVec
            /\ Len(citations) = Len(topChunks)
            /\ Len(prompt) = Len(topChunks)
            /\ withVec # all => Len(scoredChunks) < Len(cs)
            /\ pc = "done" =>
                  IF genCalls = <<"error">>
                    THEN response.status = 500
                    ELSE /\ response.status = 200
                         /\ Len(response.Citations) = Len(topChunks)

C16_Witness ==
    /\ QuestionEmbedded
    /\ pc = "done"
    /\ response.status = 200
    /\ Len(scoredChunks) = 1
    /\ Len(LoadChunks(dbChunks, req.CourseID)) > 1

SameScore(x, y) == ~FloatGreater(x, y) /\ ~FloatGreater(y, x)

\* The place of s[i] in a stable descending sort of s: after every entry
\* that scores higher and after the earlier entries of the same score.
StablePlace(s, i) ==
    1 + Cardinality({k \in 1..Len(s) :
                        \/ FloatGreater(s[k].Score, s[i].Score)
                        \/ k < i /\ SameScore(s[k].Score, s[i].Score)})

StableSortDescending(s) ==
    [p \in 1..Len(s) |-> s[CHOOSE i \in 1..Len(s) : StablePlace(s, i) = p]]

(***************************************************************************)
(* C21: the ranking loop orders the scored candidates exactly as a stable  *)
(* descending sort by score does: candidates of equal score keep their     *)
(* input order.                                                            *)
(***************************************************************************)
C21_SortIsStable ==
    Ranked => scoredChunks = StableSortDescending(Candidates)

(***************************************************************************)
(* Handler.ChatAsk, one request after another against the same store       *)
(***************************************************************************)
\* The store holds up to MaxPairs chunks of course "A", each with its
\* embedding.
MaxPairs == 3

InitRepeat ==
    /\ \E n \in 0..MaxPairs :
          /\ dbChunks = [i \in 1..n |-> ChunkRow(i)]
          /\ \E vs \in [1..n -> StoredVectors] :
                dbEmbeddings = [i \in 1..n |-> EmbeddingRow(i, vs[i])]
    /\ req = [CourseID |-> "", Question |-> ""]
    /\ scoredChunks = <<>>
    /\ topChunks = <<>>
    /\ prompt = <<>>
    /\ citations = <<>>
    /\ response = NoResponse
    /\ pc = "idle"
    /\ SimilarityIdle
    /\ text = <<>>
    /\ chunks = <<>>
    /\ EmbedIdle
    /\ BackendIdle
    /\ previous = NoPrevious
    /\ running = NoHandlers
    /\ StoreIdle

\* The handler has returned and the client sends its next chat request.
\* previous keeps what the finished request was given and what it selected.
ChatAskAgain ==
    /\ pc = "done"
    /\ previous' =
          IF genCalls # <<>>
            THEN [req |-> req, ranked |-> TRUE, query |-> queryEmbedding,
                  cs |-> LoadChunks(dbChunks, req.CourseID),
                  es |-> LoadEmbeddings(dbChunks, dbEmbeddings, req.CourseID),
                  top |-> topChunks]
            ELSE [NoPrevious EXCEPT !.req = req]
    /\ pc' = "idle"
    /\ queryEmbedding' = <<>>
    /\ req' = [CourseID |-> "", Question |-> ""]
    /\ scoredChunks' = <<>>
    /\ topChunks' = <<>>
    /\ prompt' = <<>>
    /\ citations' = <<>>
    /\ response' = NoResponse
    /\ embedCalls' = <<>>
    /\ genCalls' = <<>>
    /\ UNCHANGED <<text, chunks, vector, score, dbChunks, dbEmbeddings, running>>
    /\ UNCHANGED <<embedVars, storeVars>>

NextRepeat == ChatAskEmbed \/ ChatAskRank \/ ChatAskGenerate \/ ChatAskAgain

SpecRepeat == InitRepeat /\ [][NextRepeat]_vars

\* The request under way has been ranked, on the same query vector and the
\* same chunks and embeddings, in the same order, as the request before it.
RankedAgain ==
    /\ pc = "ranked" \/ genCalls # <<>>
    /\ previous.ranked
    /\ previous.query = queryEmbedding
    /\ previous.cs = LoadChunks(dbChunks, req.CourseID)
    /\ previous.es = LoadEmbeddings(dbChunks, dbEmbeddings, req.CourseID)

C25_StepsOnceInOrder ==
    /\ pc = "idle" => embedCalls = <<>> /\ genCalls = <<>>
    /\ pc \in {"embedding", "embedded"} =>
          /\ Len(embedCalls) = 1
          /\ embedCalls[1].input = req.Question
          /\ genCalls = <<>>
          /\ scoredChunks = <<>> /\ prompt = <<>>
    /\ pc = "ranked" =>
          /\ QuestionEmbedded
          /\ genCalls = <<>>
          /\ prompt = BuildPrompt(topChunks)
    /\ pc = "generating" => QuestionEmbedded /\ Len(genCalls) = 1
    /\ pc = "done" =>
          \/ response.status = 400 /\ embedCalls = <<>> /\ genCalls = <<>>
          \/ /\ response = [status |-> 500, error |-> "Failed to embed question"]
             /\ QuestionEmbedFailed
             /\ genCalls = <<>>
          \/ /\ response = [status |-> 500, error |-> "Failed to generate answer"]
             /\ QuestionEmbedded
             /\ Len(genCalls) = 1
             /\ GenerateText(genCalls[1]).err # ""
          \/ /\ response.status = 200
             /\ QuestionEmbedded
             /\ Len(genCalls) = 1
             /\ GenerateText(genCalls[1]).err = ""

C25_Witness ==
    /\ pc = "done"
    /\ response.status = 200
    /\ previous.ranked
    /\ previous.req = req
    /\ previous.query = queryEmbedding
    /\ previous.top = topChunks
    /\ topChunks # <<>>
    /\ Len(embedCalls) = 1
    /\ Len(genCalls) = 1

\* The vector stored for chunk c.
StoredVector(c) ==
    LET k == CHOOSE k \in 1..Len(dbEmbeddings) : dbEmbeddings[k].ChunkID = c.ID
    IN  JsonUnmarshalVector(dbEmbeddings[k].Vector)

C26_OwnCourseOwnVector ==
    (QuestionEmbedded /\ pc \in {"ranked", "generating", "done"}) =>
        /\ \A i \in 1..Len(scoredChunks) :
              LET c == scoredChunks[i].Chunk
              IN  /\ c.CourseID = req.CourseID
                  /\ \E k \in 1..Len(dbChunks) : dbChunks[k] = c
                  /\ \E j \in EmbeddingsOf(c.ID) :
                        scoredChunks[i].Score =
                            CosineSimilarity(queryEmbedding,
                                JsonUnmarshalVector(dbEmbeddings[j].Vector))
        /\ \A i \in 1..Len(topChunks) :
              /\ \E k \in 1..Len(scoredChunks) : scoredChunks[k] = topChunks[i]
              /\ prompt[i].content = topChunks[i].Chunk.Content
              /\ citations[i].similarity = Hundredths(topChunks[i].Score)

C26_Witness ==
    /\ QuestionEmbedded
    /\ pc = "ranked"
    /\ queryEmbedding # <<>>
    /\ Len(topChunks) = 1
    /\ topChunks[1].Chunk.Content = 2
    /\ Len(LoadChunks(dbChunks, req.CourseID)) = 2
    /\ \E k \in 1..Len(dbChunks) :
          /\ dbChunks[k].CourseID # req.CourseID
          /\ EmbeddingsOf(dbChunks[k].ID) # {}

(***************************************************************************)
(* C29: no two chunks of one course have the same sequence index           *)
(* (ChunkNum), whatever uploads were served, several files uploaded into   *)
(* one course included: the order of a course's chunks by sequence index   *)
(* is total.                                                               *)
(***************************************************************************)
C29_ChunkNumUniqueInCourse ==
    \A i, j \in 1..Len(dbChunks) :
        (i # j /\ dbChunks[i].CourseID = dbChunks[j].CourseID)
            => dbChunks[i].ChunkNum # dbChunks[j].ChunkNum

(***************************************************************************)
(* C30: the Dimension recorded with every stored embedding is the number   *)
(* of components of its stored vector.                                     *)
(***************************************************************************)
C30_DimensionIsVectorLength ==
    \A k \in 1..Len(dbEmbeddings) :
        dbEmbeddings[k].Dimension = Len(JsonUnmarshalVector(dbEmbeddings[k].Vector))

(***************************************************************************)
(* Handler.UploadPDF and Handler.DeleteSourceFile, two requests side by    *)
(* side.  The server runs each request in a goroutine of its own and the   *)
(* handlers take no lock and open no transaction: a handler is a sequence  *)
(* of database statements, each atomic, and the statements of the two      *)
(* requests interleave freely.  One action is one statement together with  *)
(* the local computation (and the call of the embedding backend) that      *)
(* follows it up to the next statement.                                    *)
(***************************************************************************)
\* The locals of the one-at-a-time handlers, which stay as they are here.
serialVars == <<text, chunks, queryEmbedding, vector, score, pc, req,
                scoredChunks, topChunks, prompt, citations, response,
                embedCalls, genCalls, upload, deleted, previous>>

\* The end of a turn of  for i, chunk := range chunks , and after the last
\* turn the 200 response.
NextTurn(u) ==
    IF u.i = Len(u.chunks)
      THEN [u EXCEPT !.i = u.i + 1, !.vector = <<>>, !.pc = "done", !.status = 200]
      ELSE [u EXCEPT !.i = u.i + 1, !.vector = <<>>, !.pc = "createChunk"]

\* A chunk statement that numbers the chunk by the rows the table holds.
CreateChunk_TableIndex(u, tbl, ok, h) ==
    IF ~ok THEN [u |-> NextTurn(u), tbl |-> tbl]
    ELSE [tbl |-> Append(tbl, NewChunk(ChunkUuid(u.n, u.i), u.courseID, u.fileID,
                                       u.chunks[u.i], Len(tbl) + 1)),
          u   |-> IF h = NoReply THEN [u EXCEPT !.pc = "awaiting"]
                  ELSE IF Embed(provider, h).err # "" THEN NextTurn(u)
                  ELSE [u EXCEPT !.pc = "createEmbedding",
                                 !.vector = Embed(provider, h).vector]]

\* A chunk statement that goes on to embed the chunk when its save failed.
CreateChunk_EmbedUnsaved(u, tbl, ok, h) ==
    IF ~ok THEN [u   |-> [u EXCEPT !.pc = "createEmbedding",
                                   !.vector = ChunkVector(u.chunks[u.i])],
                 tbl |-> tbl]
    ELSE [tbl |-> Append(tbl, NewChunk(ChunkUuid(u.n, u.i), u.courseID, u.fileID,
                                       u.chunks[u.i], u.i)),
          u   |-> IF h = NoReply THEN [u EXCEPT !.pc = "awaiting"]
                  ELSE IF Embed(provider, h).err # "" THEN NextTurn(u)
                  ELSE [u EXCEPT !.pc = "createEmbedding",
                                 !.vector = Embed(provider, h).vector]]

\* h.db.Create(chunkModel) on the table tbl, with ok telling whether the
\* insert succeeds, and h.embeddingProvider.Embed(chunk) with the reply h of
\* the backend: the table and the locals u of the upload after them.
CreateChunk(u, tbl, ok, h) ==
    IF ~ok THEN [u |-> NextTurn(u), tbl |-> tbl]
    ELSE [tbl |-> Append(tbl, NewChunk(ChunkUuid(u.n, u.i), u.courseID, u.fileID,
                                       u.chunks[u.i], u.i)),
          u   |-> IF h = NoReply THEN [u EXCEPT !.pc = "awaiting"]
                  ELSE IF Embed(provider, h).err # "" THEN NextTurn(u)
                  ELSE [u EXCEPT !.pc = "createEmbedding",
                                 !.vector = Embed(provider, h).vector]]

\* h.db.Create(embeddingModel) on the table tbl; its error is only logged.
CreateEmbedding(u, tbl, ok) ==
    [tbl |-> IF ok
               THEN InsertEmbedding(tbl, NewEmbedding(EmbeddingUuid(u.n, u.i),
                                                      ChunkUuid(u.n, u.i),
                                                      u.vector, provider))
               ELSE tbl,
     u   |-> NextTurn(u)]

Finished(u, st) == [u EXCEPT !.pc = "done", !.status = st]

\* The store when the two requests arrive: empty, or holding course "A"
\* with one source file of one chunk, as a finished upload leaves it.
InitParallel ==
    /\ pc = "idle"
    /\ text = <<>>
    /\ chunks = <<>>
    /\ SimilarityIdle
    /\ req = [CourseID |-> "", Question |-> ""]
    /\ scoredChunks = <<>>
    /\ topChunks = <<>>
    /\ prompt = <<>>
    /\ citations = <<>>
    /\ response = NoResponse
    /\ EmbedIdle
    /\ BackendIdle
    /\ previous = NoPrevious
    /\ running = NoHandlers
    /\ upload = NoUpload
    /\ deleted = NoDelete
    /\ \/ /\ uuids = 0
          /\ dbCourses = <<>>
          /\ dbSourceFiles = <<>>
          /\ dbChunks = <<>>
          /\ dbEmbeddings = <<>>
       \/ /\ uuids = 1
          /\ dbCourses = <<CourseRow(UuidString(1))>>
          /\ dbSourceFiles = <<SourceFileRow(1, UuidString(1))>>
          /\ dbChunks = <<NewChunk(ChunkUuid(1, 1), UuidString(1), 1, 1, 1)>>
          /\ dbEmbeddings = <<NewEmbedding(EmbeddingUuid(1, 1), ChunkUuid(1, 1),
                                           ChunkVector(1), "openai")>>

\* UploadPDF up to its first write: the form, the lookup of the course when
\* course_id is given, the identifiers, the file on disk and its chunks.
UploadPDFBegin(g) ==
    /\ running[g].op = "none"
    /\ \E cid \in UploadCourseIDs, cs \in UploadedChunks, ok \in BOOLEAN :
          LET n == uuids + 1
              u == [running[g] EXCEPT !.op = "upload", !.courseID = cid]
          IN  IF cid # "" /\ ~CourseExists(cid)
                THEN /\ running' = [running EXCEPT ![g] = Finished(u, 404)]
                     /\ UNCHANGED uuids
                ELSE /\ uuids' = n
                     /\ running' =
                           [running EXCEPT ![g] =
                               IF ~ok THEN Finished(u, 500)
                               ELSE [u EXCEPT
                                       !.courseID = IF cid = "" THEN UuidString(n)
                                                    ELSE cid,
                                       !.fileID = n, !.n = n, !.chunks = cs,
                                       !.pc = IF cid = "" THEN "createCourse"
                                              ELSE "createFile"]]
    /\ UNCHANGED <<dbCourses, dbSourceFiles, dbChunks, dbEmbeddings>>
    /\ UNCHANGED <<serialVars, embedVars>>

\* if isNewCourse { h.db.Create(course) }
UploadPDFCourse(g) ==
    /\ running[g].pc = "createCourse"
    /\ \/ /\ dbCourses' = Append(dbCourses, CourseRow(running[g].courseID))
          /\ running' = [running EXCEPT ![g].pc = "createFile"]
       \/ /\ running' = [running EXCEPT ![g] = Finished(@, 500)]
          /\ UNCHANGED dbCourses
    /\ UNCHANGED <<dbSourceFiles, dbChunks, dbEmbeddings, uuids>>
    /\ UNCHANGED <<serialVars, embedVars>>

\* h.db.Create(sourceFile)
UploadPDFFile(g) ==
    /\ running[g].pc = "createFile"
    /\ \/ /\ dbSourceFiles' = Append(dbSourceFiles,
                                     SourceFileRow(running[g].fileID,
                                                   running[g].courseID))
          /\ running' = [running EXCEPT ![g] =
                            IF @.chunks = <<>> THEN Finished(@, 200)
                            ELSE [@ EXCEPT !.pc = "createChunk", !.i = 1]]
       \/ /\ running' = [running EXCEPT ![g] = Finished(@, 500)]
          /\ UNCHANGED dbSourceFiles
    /\ UNCHANGED <<dbCourses, dbChunks, dbEmbeddings, uuids>>
    /\ UNCHANGED <<serialVars, embedVars>>

\* The chunk record of turn i and the embedding of the chunk.  log keeps
\* how each statement of the loop went.
UploadPDFChunkRow(g) ==
    /\ running[g].pc = "createChunk"
    /\ LET u == running[g]
       IN  \E ok \in BOOLEAN, h \in UploadReplies(u.chunks[u.i]) \cup {NoReply} :
              /\ ~ok => h = NoReply
              /\ LET r == CreateChunk(u, dbChunks, ok, h)
                 IN  /\ dbChunks' = r.tbl
                     /\ running' =
                           [running EXCEPT ![g] =
                               [r.u EXCEPT !.log = Append(@, [ok |-> ok, h |-> h])]]
    /\ UNCHANGED <<dbCourses, dbSourceFiles, dbEmbeddings, uuids>>
    /\ UNCHANGED <<serialVars, embedVars>>

\* The embedding record of turn i.
UploadPDFEmbeddingRow(g) ==
    /\ running[g].pc = "createEmbedding"
    /\ \E ok \in BOOLEAN :
          LET r == CreateEmbedding(running[g], dbEmbeddings, ok)
          IN  /\ dbEmbeddings' = r.tbl
              /\ running' =
                    [running EXCEPT ![g] =
                        [r.u EXCEPT !.log = Append(@, [ok |-> ok, h |-> NoReply])]]
    /\ UNCHANGED <<dbCourses, dbSourceFiles, dbChunks, uuids>>
    /\ UNCHANGED <<serialVars, embedVars>>

\* h.db.Where("id = ? AND course_id = ?", fileID, courseID).First(&sourceFile)
DeleteSourceFileFind(g) ==
    /\ running[g].op = "none"
    /\ \E cid \in DeleteCourseIDs,
          fid \in {0} \cup {dbSourceFiles[k].ID : k \in 1..Len(dbSourceFiles)} :
          LET u == [running[g] EXCEPT !.op = "delete", !.courseID = cid,
                                      !.fileID = fid]
          IN  running' =
                 [running EXCEPT ![g] =
                     IF \E k \in 1..Len(dbSourceFiles) :
                           /\ dbSourceFiles[k].ID = fid
                           /\ dbSourceFiles[k].CourseID = cid
                       THEN [u EXCEPT !.pc = "findChunks"]
                       ELSE Finished(u, 404)]
    /\ UNCHANGED <<dbCourses, dbSourceFiles, dbChunks, dbEmbeddings, uuids>>
    /\ UNCHANGED <<serialVars, embedVars>>

\* h.db.Where("source_file_id = ?", fileID).Find(&chunks)
DeleteSourceFileChunks(g) ==
    /\ running[g].pc = "findChunks"
    /\ LET rows == SelectSeq(dbChunks,
                             LAMBDA c : c.SourceFileID = running[g].fileID)
       IN  running' =
              [running EXCEPT ![g].found = [k \in 1..Len(rows) |-> rows[k].ID],
                              ![g].i = 1,
                              ![g].pc = IF rows = <<>> THEN "deleteChunks"
                                        ELSE "deleteEmbeddings"]
    /\ UNCHANGED <<dbCourses, dbSourceFiles, dbChunks, dbEmbeddings, uuids>>
    /\ UNCHANGED <<serialVars, embedVars>>

\* One turn of  for _, chunk := range chunks :
\* h.db.Where("chunk_id = ?", chunk.ID).Delete(&models.Embedding{})
DeleteSourceFileEmbeddings(g) ==
    /\ running[g].pc = "deleteEmbeddings"
    /\ LET u == running[g]
       IN  /\ dbEmbeddings' = SelectSeq(dbEmbeddings,
                                        LAMBDA e : e.ChunkID # u.found[u.i])
           /\ running' =
                 [running EXCEPT ![g].i = u.i + 1,
                                 ![g].pc = IF u.i = Len(u.found) THEN "deleteChunks"
                                           ELSE "deleteEmbeddings"]
    /\ UNCHANGED <<dbCourses, dbSourceFiles, dbChunks, uuids>>
    /\ UNCHANGED <<serialVars, embedVars>>

\* h.db.Where("source_file_id = ?", fileID).Delete(&models.Chunk{})
DeleteSourceFileChunkRows(g) ==
    /\ running[g].pc = "deleteChunks"
    /\ dbChunks' = SelectSeq(dbChunks,
                             LAMBDA c : c.SourceFileID # running[g].fileID)
    /\ running' = [running EXCEPT ![g].pc = "deleteFile"]
    /\ UNCHANGED <<dbCourses, dbSourceFiles, dbEmbeddings, uuids>>
    /\ UNCHANGED <<serialVars, embedVars>>

\* h.db.Delete(&sourceFile), the one statement whose error is answered.
DeleteSourceFileRecord(g) ==
    /\ running[g].pc = "deleteFile"
    /\ \/ /\ dbSourceFiles' = SelectSeq(dbSourceFiles,
                                        LAMBDA f : f.ID # running[g].fileID)
          /\ running' = [running EXCEPT ![g].pc = "countFiles"]
       \/ /\ running' = [running EXCEPT ![g] = Finished(@, 500)]
          /\ UNCHANGED dbSourceFiles
    /\ UNCHANGED <<dbCourses, dbChunks, dbEmbeddings, uuids>>
    /\ UNCHANGED <<serialVars, embedVars>>

\* h.db.Where("course_id = ?", courseID).Find(&remainingFiles)
DeleteSourceFileCount(g) ==
    /\ running[g].pc = "countFiles"
    /\ running' =
          [running EXCEPT ![g] =
              IF \E k \in 1..Len(dbSourceFiles) :
                    dbSourceFiles[k].CourseID = @.courseID
                THEN Finished(@, 200)
                ELSE [@ EXCEPT !.pc = "deleteCourse"]]
    /\ UNCHANGED <<dbCourses, dbSourceFiles, dbChunks, dbEmbeddings, uuids>>
    /\ UNCHANGED <<serialVars, embedVars>>

\* h.db.Delete(&models.Course{}, "id = ?", courseID), after the deletes of
\* the slides and chat messages of the course, and the 200 response.
DeleteSourceFileCourse(g) ==
    /\ running[g].pc = "deleteCourse"
    /\ dbCourses' = SelectSeq(dbCourses, LAMBDA c : c.ID # running[g].courseID)
    /\ running' = [running EXCEPT ![g] = Finished(@, 200)]
    /\ UNCHANGED <<dbSourceFiles, dbChunks, dbEmbeddings, uuids>>
    /\ UNCHANGED <<serialVars, embedVars>>

NextParallel ==
    \E g \in Goroutines :
        \/ UploadPDFBegin(g)
        \/ UploadPDFCourse(g)
        \/ UploadPDFFile(g)
        \/ UploadPDFChunkRow(g)
        \/ UploadPDFEmbeddingRow(g)
        \/ DeleteSourceFileFind(g)
        \/ DeleteSourceFileChunks(g)
        \/ DeleteSourceFileEmbeddings(g)
        \/ DeleteSourceFileChunkRows(g)
        \/ DeleteSourceFileRecord(g)
        \/ DeleteSourceFileCount(g)
        \/ DeleteSourceFileCourse(g)

SpecParallel == InitParallel /\ [][NextParallel]_vars

\* The tables are sound: every embedding refers to a stored chunk, every
\* chunk to a stored source file, every source file to a stored course.
Integrity ==
    /\ \A k \in 1..Len(dbEmbeddings) :
          \E j \in 1..Len(dbChunks) : dbChunks[j].ID = dbEmbeddings[k].ChunkID
    /\ \A k \in 1..Len(dbChunks) :
          \E j \in 1..Len(dbSourceFiles) :
              dbSourceFiles[j].ID = dbChunks[k].SourceFileID
    /\ \A k \in 1..Len(dbSourceFiles) : CourseExists(dbSourceFiles[k].CourseID)

\* The upload u creates the course it writes to.
CreatesCourse(u) == u.op = "upload" /\ u.n > 0 /\ u.courseID = UuidString(u.n)

\* The loop of an upload run by itself on empty tables, its statements
\* going as log tells, from entry k of log.
RECURSIVE RunAlone(_, _, _, _, _)
RunAlone(u, cs, es, log, k) ==
    IF k > Len(log) THEN [chunks |-> cs, embeddings |-> es]
    ELSE IF u.pc = "createChunk"
      THEN LET r == CreateChunk(u, cs, log[k].ok, log[k].h)
           IN  RunAlone(r.u, r.tbl, es, log, k + 1)
      ELSE LET r == CreateEmbedding(u, es, log[k].ok)
           IN  RunAlone(r.u, cs, r.tbl, log, k + 1)

Alone(u) ==
    RunAlone([u EXCEPT !.pc = "createChunk", !.i = 1, !.vector = <<>>,
                       !.status = 0],
             <<>>, <<>>, u.log, 1)

(***************************************************************************)
(* C23: two UploadPDF requests that each create a course, interleaved in   *)
(* any way, leave each course with the chunks, sequence indices and        *)
(* embeddings that its upload writes when it runs by itself with the same  *)
(* outcomes of its statements, and with its own source file only: no       *)
(* record of one course is written by the upload of the other.             *)
(***************************************************************************)
C23_UploadsAreIndependent ==
    (\A g \in Goroutines : CreatesCourse(running[g])) =>
        \A g \in Goroutines :
            LET u     == running[g]
                alone == Alone(u)
            IN  /\ LoadChunks(dbChunks, u.courseID) = alone.chunks
                /\ LoadEmbeddings(dbChunks, dbEmbeddings, u.courseID)
                      = alone.embeddings
                /\ \A k \in 1..Len(dbSourceFiles) :
                      dbSourceFiles[k].CourseID = u.courseID
                          => dbSourceFiles[k].ID = u.fileID
                /\ \A k \in 1..Len(dbChunks) :
                      dbChunks[k].SourceFileID = u.fileID
                          => dbChunks[k].CourseID = u.courseID

\* Both uploads have finished with two chunks and two embeddings each, and
\* their rows alternate in the tables.
C23_Witness ==
    /\ \A g \in Goroutines :
          /\ CreatesCourse(running[g])
          /\ running[g].pc = "done"
          /\ running[g].status = 200
          /\ Len(LoadEmbeddings(dbChunks, dbEmbeddings, running[g].courseID)) = 2
    /\ Len(dbChunks) = 4
    /\ dbChunks[1].CourseID # dbChunks[2].CourseID
    /\ dbChunks[2].CourseID # dbChunks[3].CourseID
    /\ dbEmbeddings[1].ChunkID = dbChunks[2].ID

(***************************************************************************)
(* C24: when an UploadPDF that is still writing its chunks and a           *)
(* DeleteSourceFile on the same course (of the file being uploaded, or of  *)
(* the last other file of the course) have both finished, however their    *)
(* statements interleaved, every embedding refers to a stored chunk, every *)
(* chunk to a stored source file and every source file to a stored course. *)
(***************************************************************************)
C24_SoundAfterUploadAndDelete ==
    (\E g, h \in Goroutines :
        /\ running[g].op = "upload" /\ running[g].pc = "done"
        /\ running[h].op = "delete" /\ running[h].pc = "done"
        /\ running[g].courseID = running[h].courseID)
    => Integrity

(***************************************************************************)
(* C28: within one UploadPDF the chunks are saved in increasing sequence   *)
(* index, the i-th string of the chunker's output with index i counted     *)
(* from 0; the embedding of a chunk is created only when that chunk is     *)
(* stored and no later chunk of the file is; and no embedding is created   *)
(* for a chunk whose save failed.  (Stated of every statement that adds a  *)
(* row while no DeleteSourceFile runs beside the uploads.)                 *)
(***************************************************************************)
C28_ChunkThenItsEmbedding ==
    [][(\A g \in Goroutines : running[g].op # "delete") =>
          /\ \A k \in 1..Len(dbChunks') :
                (\A j \in 1..Len(dbChunks) : dbChunks[j] # dbChunks'[k]) =>
                    LET c == dbChunks'[k]
                    IN  /\ \E g \in Goroutines :
                              /\ running[g].pc = "createChunk"
                              /\ running[g].fileID = c.SourceFileID
                              /\ running[g].i = c.ChunkNum + 1
                              /\ running[g].chunks[c.ChunkNum + 1] = c.Content
                        /\ \A j \in 1..Len(dbChunks) :
                              dbChunks[j].SourceFileID = c.SourceFileID
                                  => dbChunks[j].ChunkNum < c.ChunkNum
                        /\ \A j \in 1..Len(dbEmbeddings') :
                              dbEmbeddings'[j].ChunkID # c.ID
          /\ \A k \in 1..Len(dbEmbeddings') :
                (\A j \in 1..Len(dbEmbeddings) : dbEmbeddings[j] # dbEmbeddings'[k]) =>
                    \E j \in 1..Len(dbChunks) :
                        /\ dbChunks[j].ID = dbEmbeddings'[k].ChunkID
                        /\ \A m \in 1..Len(dbChunks) :
                              dbChunks[m].SourceFileID = dbChunks[j].SourceFileID
                                  => dbChunks[m].ChunkNum <= dbChunks[j].ChunkNum
                        /\ \E g \in Goroutines :
                              /\ running[g].pc = "createEmbedding"
                              /\ running[g].log[Len(running[g].log)].ok
                              /\ running[g].fileID = dbChunks[j].SourceFileID
                              /\ running[g].i = dbChunks[j].ChunkNum + 1
      ]_vars

\* An upload whose first chunk was not saved and whose second chunk was,
\* with its embedding.
C28_Witness ==
    \E g \in Goroutines :
        LET u == running[g]
        IN  /\ \A h \in Goroutines : running[h].op # "delete"
            /\ u.op = "upload"
            /\ u.pc = "done"
            /\ u.status = 200
            /\ Len(u.chunks) = 2
            /\ ~u.log[1].ok
            /\ \E k \in 1..Len(dbChunks) :
                  /\ dbChunks[k].SourceFileID = u.fileID
                  /\ dbChunks[k].ChunkNum = 1
                  /\ \E j \in 1..Len(dbEmbeddings) :
                        dbEmbeddings[j].ChunkID = dbChunks[k].ID
            /\ \A k \in 1..Len(dbChunks) :
                  dbChunks[k].SourceFileID = u.fileID => dbChunks[k].ChunkNum = 1

====
